---- MODULE Spec2Model ----
(***************************************************************************)
(* Model of the HTTP request layer of the erold CLI (src/src/lib/api.js)   *)
(* and of the configuration store it reads (lib/config.js).                *)
(*                                                                         *)
(* JavaScript values are tagged records [t, v]; a JavaScript object is a   *)
(* function over the fixed key list KeySeq, an absent key holding          *)
(* Undefined (what a property read of a missing key yields).  Text is a    *)
(* sequence of atoms: a run of characters that needs no escaping, or one   *)
(* reserved character.                                                     *)
(***************************************************************************)
EXTENDS Integers, Sequences, FiniteSets, TLC

\* store:  the Conf store of lib/config.js (apiKey, apiUrl, tenant)
\* env:    the EROLD_* environment variables config.get reads first
\* inputs: which pool of inputs (entry points, arguments, responses) the
\*         behaviour draws from; it never changes
\* calls:  the activations of request(), one per caller slot
VARIABLES store, env, inputs, calls, cmd

vars == <<store, env, inputs, calls, cmd>>

(* ------------------------------------------------------------------ *)
(* JavaScript values                                                   *)
(* ------------------------------------------------------------------ *)

Undefined == [t |-> "undefined", v |-> "undefined"]
Null == [t |-> "null", v |-> "null"]
Bool(b) == [t |-> "bool", v |-> b]
Num(n) == [t |-> "num", v |-> n]
Str(s) == [t |-> "str", v |-> s]
Arr(s) == [t |-> "arr", v |-> s]

KeySeq == <<"data", "error", "message", "details", "name", "success",
            "taskIds", "updates", "summary", "reason", "percent", "notes",
            "hours", "content", "email", "role", "id">>
Keys == {KeySeq[i] : i \in DOMAIN KeySeq}

\* An object literal: f gives the keys that are present.
Obj(f) == [t |-> "obj", v |-> [k \in Keys |-> IF k \in DOMAIN f THEN f[k] ELSE Undefined]]

\* v.k for a value that is neither null nor undefined: own keys of an
\* object, undefined on everything else.
Prop(val, k) == IF val.t = "obj" THEN val.v[k] ELSE Undefined

\* v?.k
OptProp(val, k) == IF val.t \in {"undefined", "null"} THEN Undefined ELSE Prop(val, k)

\* ToBoolean
Truthy(val) ==
    CASE val.t \in {"undefined", "null"} -> FALSE
      [] val.t = "bool" -> val.v
      [] val.t = "num" -> val.v # 0
      [] val.t = "str" -> val.v # ""
      [] OTHER -> TRUE

\* a || b
OrElse(a, b) == IF Truthy(a) THEN a ELSE b

(* ------------------------------------------------------------------ *)
(* JSON text: a sequence of lexical tokens                             *)
(* ------------------------------------------------------------------ *)

Tok(k, s, n) == [k |-> k, s |-> s, n |-> n]
P(s) == Tok("p", s, 0)
Lit(s) == Tok("lit", s, 0)

\* the characters of a token
TokText(tk) ==
    CASE tk.k = "num" -> ToString(tk.n)
      [] tk.k = "str" -> "\"" \o tk.s \o "\""
      [] OTHER -> tk.s

RECURSIVE Flat(_)
\* the string a sequence of strings spells
Flat(ss) == IF ss = <<>> THEN "" ELSE Head(ss) \o Flat(Tail(ss))

TokensText(toks) == Flat([i \in DOMAIN toks |-> TokText(toks[i])])

RECURSIVE Stringify(_)
RECURSIVE StringifyElems(_, _)
RECURSIVE StringifyMembers(_, _, _)

\* JSON.stringify of the elements s[i..]; an undefined element is written null
StringifyElems(s, i) ==
    IF i > Len(s) THEN <<>>
    ELSE (IF i > 1 THEN <<P(",")>> ELSE <<>>)
         \o (IF s[i].t = "undefined" THEN <<Lit("null")>> ELSE Stringify(s[i]))
         \o StringifyElems(s, i + 1)

\* JSON.stringify of the members KeySeq[i..] of o; an undefined member is left out
StringifyMembers(o, i, first) ==
    IF i > Len(KeySeq) THEN <<>>
    ELSE IF o[KeySeq[i]].t = "undefined" THEN StringifyMembers(o, i + 1, first)
    ELSE (IF first THEN <<>> ELSE <<P(",")>>)
         \o <<Tok("str", KeySeq[i], 0), P(":")>> \o Stringify(o[KeySeq[i]])
         \o StringifyMembers(o, i + 1, FALSE)

\* JSON.stringify(val), val not undefined
Stringify(val) ==
    CASE val.t = "null" -> <<Lit("null")>>
      [] val.t = "bool" -> <<Lit(IF val.v THEN "true" ELSE "false")>>
      [] val.t = "num" -> <<Tok("num", "", val.v)>>
      [] val.t = "str" -> <<Tok("str", val.v, 0)>>
      [] val.t = "arr" -> <<P("[")>> \o StringifyElems(val.v, 1) \o <<P("]")>>
      [] val.t = "obj" -> <<P("{")>> \o StringifyMembers(val.v, 1, TRUE) \o <<P("}")>>
      [] OTHER -> <<>>

ParseFail == [ok |-> FALSE, val |-> Undefined, next |-> 0]
ParseOk(val, next) == [ok |-> TRUE, val |-> val, next |-> next]

RECURSIVE ParseValue(_, _)
RECURSIVE ParseElems(_, _, _)
RECURSIVE ParseMembers(_, _, _)

\* the elements of an array, toks[i] being the first token of an element
ParseElems(toks, i, acc) ==
    LET r == ParseValue(toks, i) IN
    IF ~r.ok \/ r.next > Len(toks) THEN ParseFail
    ELSE IF toks[r.next] = P(",") THEN ParseElems(toks, r.next + 1, Append(acc, r.val))
    ELSE IF toks[r.next] = P("]") THEN ParseOk(Arr(Append(acc, r.val)), r.next + 1)
    ELSE ParseFail

\* the members of an object, toks[i] being the key of a member
ParseMembers(toks, i, acc) ==
    IF i + 1 > Len(toks) \/ toks[i].k # "str" \/ toks[i].s \notin Keys \/ toks[i + 1] # P(":")
    THEN ParseFail
    ELSE LET r == ParseValue(toks, i + 2)
             acc2 == [acc EXCEPT ![toks[i].s] = r.val]
         IN IF ~r.ok \/ r.next > Len(toks) THEN ParseFail
            ELSE IF toks[r.next] = P(",") THEN ParseMembers(toks, r.next + 1, acc2)
            ELSE IF toks[r.next] = P("}") THEN ParseOk([t |-> "obj", v |-> acc2], r.next + 1)
            ELSE ParseFail

\* one JSON value starting at toks[i]
ParseValue(toks, i) ==
    IF i > Len(toks) THEN ParseFail
    ELSE LET tk == toks[i] IN
         CASE tk.k = "lit" ->
                (CASE tk.s = "null" -> ParseOk(Null, i + 1)
                   [] tk.s = "true" -> ParseOk(Bool(TRUE), i + 1)
                   [] tk.s = "false" -> ParseOk(Bool(FALSE), i + 1)
                   [] OTHER -> ParseFail)
           [] tk.k = "num" -> ParseOk(Num(tk.n), i + 1)
           [] tk.k = "str" -> ParseOk(Str(tk.s), i + 1)
           [] tk = P("[") ->
                IF i + 1 <= Len(toks) /\ toks[i + 1] = P("]")
                THEN ParseOk(Arr(<<>>), i + 2)
                ELSE ParseElems(toks, i + 1, <<>>)
           [] tk = P("{") ->
                IF i + 1 <= Len(toks) /\ toks[i + 1] = P("}")
                THEN ParseOk(Obj(<<>>), i + 2)
                ELSE ParseMembers(toks, i + 1, [k \in Keys |-> Undefined])
           [] OTHER -> ParseFail

\* JSON.parse: the whole text must be one value
JsonParse(toks) ==
    LET r == ParseValue(toks, 1) IN
    IF r.ok /\ r.next = Len(toks) + 1 THEN r ELSE ParseFail

(* ------------------------------------------------------------------ *)
(* Strings and the query string                                        *)
(* ------------------------------------------------------------------ *)

RECURSIVE JoinStr(_, _)
\* ss joined by sep
JoinStr(ss, sep) ==
    IF ss = <<>> THEN ""
    ELSE IF Len(ss) = 1 THEN ss[1]
    ELSE ss[1] \o sep \o JoinStr(Tail(ss), sep)

RECURSIVE JsString(_)
\* String(val), what a template literal writes for val
JsString(val) ==
    CASE val.t \in {"undefined", "null"} -> val.v
      [] val.t = "bool" -> IF val.v THEN "true" ELSE "false"
      [] val.t = "num" -> ToString(val.v)
      [] val.t = "str" -> val.v
      [] val.t = "arr" ->
           JoinStr([i \in DOMAIN val.v |->
                      IF val.v[i].t \in {"undefined", "null"} THEN "" ELSE JsString(val.v[i])], ",")
      [] OTHER -> "[object Object]"

\* The characters of a string, as atoms: each reserved character alone, a
\* run of unreserved characters as one atom.
Atoms(s) ==
    CASE s = "" -> <<>>
      [] s = "in progress" -> <<"in", " ", "progress">>
      [] s = "a&b=c" -> <<"a", "&", "b", "=", "c">>
      [] s = "1,2" -> <<"1", ",", "2">>
      [] s = "[object Object]" -> <<"[", "object", " ", "Object", "]">>
      [] OTHER -> <<s>>

\* application/x-www-form-urlencoded byte serializer, per atom
FormEncodeAtom(a) ==
    CASE a = " " -> "+"
      [] a = "&" -> "%26"
      [] a = "=" -> "%3D"
      [] a = "," -> "%2C"
      [] a = "[" -> "%5B"
      [] a = "]" -> "%5D"
      [] a = "+" -> "%2B"
      [] a = "%" -> "%25"
      [] OTHER -> a

FormEncode(s) == LET as == Atoms(s) IN [i \in DOMAIN as |-> FormEncodeAtom(as[i])]

\* A params mapping is the sequence of its entries [key, value] in the
\* order Object.entries yields them; keys are names, not integers.
Entry(k, val) == [key |-> k, value |-> val]

\* the filter written as a truthiness test: 0 and false are dropped too
KeepParam_Truthy(val) == Truthy(val)

\* api.js get: the filter of the forEach callback
KeepParam(val) == val # Undefined /\ val # Null /\ val # Str("")

RECURSIVE AppendParams(_, _)
\* searchParams after the forEach over entries: a list of [name, value] strings
AppendParams(entries, acc) ==
    IF entries = <<>> THEN acc
    ELSE AppendParams(Tail(entries),
                      IF KeepParam(Head(entries).value)
                      THEN Append(acc, [name |-> Head(entries).key,
                                        value |-> JsString(Head(entries).value)])
                      ELSE acc)

RECURSIVE SearchParamsToString(_)
\* URLSearchParams.toString(): name=value pairs joined by &, as atoms
SearchParamsToString(list) ==
    IF list = <<>> THEN <<>>
    ELSE FormEncode(list[1].name) \o <<"=">> \o FormEncode(list[1].value)
         \o (IF Len(list) > 1 THEN <<"&">> ELSE <<>>)
         \o SearchParamsToString(Tail(list))

\* the "?" appended whether or not a parameter is kept
GetUrl_AlwaysQuery(endpoint, params) ==
    endpoint \o <<"?">> \o SearchParamsToString(AppendParams(params, <<>>))

\* api.js get: the endpoint handed to request, as atoms
GetUrl(endpoint, params) ==
    LET queryString == SearchParamsToString(AppendParams(params, <<>>))
    IN IF queryString # <<>> THEN endpoint \o <<"?">> \o queryString ELSE endpoint

(* ------------------------------------------------------------------ *)
(* Configuration store (lib/config.js)                                 *)
(* ------------------------------------------------------------------ *)

ConfigKeys == {"apiKey", "apiUrl", "tenant"}

\* `EROLD_${key.toUpperCase()}`
EnvKey(key) ==
    CASE key = "apiKey" -> "EROLD_APIKEY"
      [] key = "apiUrl" -> "EROLD_APIURL"
      [] key = "tenant" -> "EROLD_TENANT"

EnvNames == {EnvKey(k) : k \in ConfigKeys} \cup {"EROLD_API_URL"}

DefaultApiUrl == Str("https://api.erold.dev/api/v1")

\* the schema defaults the store is constructed with
SchemaDefaults(e) ==
    [apiKey |-> Str(""),
     apiUrl |-> OrElse(e["EROLD_API_URL"], DefaultApiUrl),
     tenant |-> Str("")]

\* config.get(key) preferring the stored value to the environment
ConfigGet_StoreFirst(key) ==
    IF Truthy(store[key]) THEN store[key] ELSE env[EnvKey(key)]

\* config.get(key): the environment first, the stored value otherwise
ConfigGet(key) == IF Truthy(env[EnvKey(key)]) THEN env[EnvKey(key)] ELSE store[key]

\* the credentials as they were when the module was loaded
GetApiConfig_AtLoad == SchemaDefaults(env)

\* config.getApiConfig()
GetApiConfig ==
    [apiKey |-> ConfigGet("apiKey"), apiUrl |-> ConfigGet("apiUrl"), tenant |-> ConfigGet("tenant")]

\* the tails that complete a prefix to one of the strings of the inputs
Tails == {"", "k1", "k2", "env"}

\* s.startsWith(prefix): some tail completes the prefix to s
StartsWith(s, prefix) == \E tail \in Tails : s = prefix \o tail

\* config.isConfigured(): apiKey && apiKey.startsWith('erold_')
IsConfigured ==
    LET apiKey == ConfigGet("apiKey")
    IN Truthy(apiKey) /\ StartsWith(apiKey.v, "erold_")

\* config.saveCredentials(apiKey, tenant) applied to the stored values st
SaveCredentials(st, apiKey, tenant) ==
    LET saved == [st EXCEPT !.apiKey = apiKey]
    IN IF Truthy(tenant) THEN [saved EXCEPT !.tenant = tenant] ELSE saved

\* clearCredentials removing the key and leaving the tenant
ClearCredentials_KeyOnly(st) == [st EXCEPT !.apiKey = Undefined]

\* config.clearCredentials() applied to the stored values st
ClearCredentials(st) == [st EXCEPT !.apiKey = Undefined, !.tenant = Undefined]

(* ------------------------------------------------------------------ *)
(* Errors                                                              *)
(* ------------------------------------------------------------------ *)

NoError == [name |-> "none", message |-> "", statusCode |-> Undefined, details |-> Undefined]

\* an error that is no ApiError: it has a name and a message only
JsError(name, message) ==
    [name |-> name, message |-> message, statusCode |-> Undefined, details |-> Undefined]

\* new ApiError(message, statusCode, details = null)
ApiError(message, statusCode, details) ==
    [name |-> "ApiError",
     message |-> JsString(message),
     statusCode |-> statusCode,
     details |-> IF details = Undefined THEN Null ELSE details]

\* (the messages are written without the backquotes of the source)
NotAuthenticated == ApiError(Str("Not authenticated. Run erold login first."), Num(401), Undefined)

NoTenantConfigured ==
    ApiError(Str("No tenant configured. Run erold config set tenant <tenant-id> first."),
             Num(400), Undefined)

\* the prefix built without the tenant check
GetTenantPath_Unchecked ==
    [ok |-> TRUE, error |-> NoError, path |-> <<"/tenants/", JsString(ConfigGet("tenant"))>>]

\* getTenantPath(): the outcome, a thrown error or the prefix atoms
GetTenantPath ==
    LET tenant == ConfigGet("tenant") IN
    IF ~Truthy(tenant)
    THEN [ok |-> FALSE, error |-> NoTenantConfigured, path |-> <<>>]
    ELSE [ok |-> TRUE, error |-> NoError, path |-> <<"/tenants/", JsString(tenant)>>]

(* ------------------------------------------------------------------ *)
(* Entry points: the four verbs and the resource facades               *)
(* ------------------------------------------------------------------ *)

\* One entry point.  scoped: the path starts with getTenantPath(); path:
\* the rest of the path, the arguments written in; pre: the entries the
\* facade itself puts in front of the caller's params; takes: the argument
\* the caller supplies ("params", "data" or "none"); fixed: the body the
\* facade builds itself (Undefined when it builds none).
F(fn, scoped, verb, path, pre, takes, fixed) ==
    [fn |-> fn, scoped |-> scoped, verb |-> verb, path |-> path, pre |-> pre,
     takes |-> takes, fixed |-> fixed]

Verbs ==
    { F("get", FALSE, "GET", <<"/test">>, <<>>, "params", Undefined),
      F("post", FALSE, "POST", <<"/test">>, <<>>, "data", Undefined),
      F("patch", FALSE, "PATCH", <<"/test/", "123">>, <<>>, "data", Undefined),
      F("del", FALSE, "DELETE", <<"/test/", "123">>, <<>>, "none", Undefined) }

GlobalFacades ==
    { F("user.me", FALSE, "GET", <<"/me">>, <<>>, "none", Undefined),
      F("user.notifications", FALSE, "GET", <<"/me/notifications">>, <<>>, "params", Undefined),
      F("user.markNotificationRead", FALSE, "PATCH", <<"/me/notifications/", "42">>, <<>>, "none", Undefined),
      F("user.markAllNotificationsRead", FALSE, "POST", <<"/me/notifications/read-all">>, <<>>, "none", Undefined),
      F("invites.accept", FALSE, "POST", <<"/invites/", "42", "/accept">>, <<>>, "none", Undefined),
      F("invites.decline", FALSE, "POST", <<"/invites/", "42", "/decline">>, <<>>, "none", Undefined),
      F("tenants.list", FALSE, "GET", <<"/tenants">>, <<>>, "none", Undefined),
      F("tenants.get", FALSE, "GET", <<"/tenants/", "acme">>, <<>>, "none", Undefined) }

TaskFacades ==
    { F("tasks.list", TRUE, "GET", <<"/tasks">>, <<>>, "params", Undefined),
      F("tasks.search", TRUE, "GET", <<"/tasks/search">>, <<Entry("q", Str("bug"))>>, "params", Undefined),
      F("tasks.mine", TRUE, "GET", <<"/tasks/mine">>, <<>>, "params", Undefined),
      F("tasks.blocked", TRUE, "GET", <<"/tasks/blocked">>, <<>>, "none", Undefined),
      F("tasks.get", TRUE, "GET", <<"/tasks/", "42">>, <<>>, "none", Undefined),
      F("tasks.create", TRUE, "POST", <<"/projects/", "7", "/tasks">>, <<>>, "data", Undefined),
      F("tasks.update", TRUE, "PATCH", <<"/tasks/", "42">>, <<>>, "data", Undefined),
      F("tasks.delete", TRUE, "DELETE", <<"/tasks/", "42">>, <<>>, "none", Undefined),
      F("tasks.bulk", TRUE, "POST", <<"/tasks/bulk">>, <<>>, "none",
        Obj(("taskIds" :> Arr(<<Str("42")>>)) @@ ("updates" :> Obj(<<>>)))),
      F("tasks.start", TRUE, "POST", <<"/tasks/", "42", "/start">>, <<>>, "none", Undefined),
      F("tasks.complete", TRUE, "POST", <<"/tasks/", "42", "/complete">>, <<>>, "none",
        Obj("summary" :> Str("done"))),
      F("tasks.block", TRUE, "POST", <<"/tasks/", "42", "/block">>, <<>>, "none",
        Obj("reason" :> Str("waiting"))),
      F("tasks.progress", TRUE, "POST", <<"/tasks/", "42", "/progress">>, <<>>, "none",
        Obj(("percent" :> Num(50)) @@ ("notes" :> Undefined))),
      F("tasks.logTime", TRUE, "POST", <<"/tasks/", "42", "/log">>, <<>>, "none",
        Obj(("hours" :> Num(2)) @@ ("notes" :> Str("n")))),
      F("tasks.comments", TRUE, "GET", <<"/tasks/", "42", "/comments">>, <<>>, "none", Undefined),
      F("tasks.addComment", TRUE, "POST", <<"/tasks/", "42", "/comments">>, <<>>, "none",
        Obj("content" :> Str("hi"))) }

ProjectFacades ==
    { F("projects.list", TRUE, "GET", <<"/projects">>, <<>>, "params", Undefined),
      F("projects.get", TRUE, "GET", <<"/projects/", "7">>, <<>>, "none", Undefined),
      F("projects.create", TRUE, "POST", <<"/projects">>, <<>>, "data", Undefined),
      F("projects.update", TRUE, "PATCH", <<"/projects/", "7">>, <<>>, "data", Undefined),
      F("projects.delete", TRUE, "DELETE", <<"/projects/", "7">>, <<>>, "none", Undefined),
      F("projects.stats", TRUE, "GET", <<"/projects/", "7", "/stats">>, <<>>, "none", Undefined),
      F("projects.tasks", TRUE, "GET", <<"/projects/", "7", "/tasks">>, <<>>, "params", Undefined) }

KnowledgeFacades ==
    { F("knowledge.list", TRUE, "GET", <<"/knowledge">>, <<>>, "params", Undefined),
      F("knowledge.get", TRUE, "GET", <<"/knowledge/", "42">>, <<>>, "none", Undefined),
      F("knowledge.getByCategory", TRUE, "GET", <<"/knowledge/category/", "howto">>, <<>>, "none", Undefined),
      F("knowledge.create", TRUE, "POST", <<"/knowledge">>, <<>>, "data", Undefined),
      F("knowledge.update", TRUE, "PATCH", <<"/knowledge/", "42">>, <<>>, "data", Undefined),
      F("knowledge.delete", TRUE, "DELETE", <<"/knowledge/", "42">>, <<>>, "none", Undefined),
      F("knowledge.search", TRUE, "GET", <<"/knowledge">>, <<Entry("search", Str("bug"))>>, "none", Undefined) }

VaultFacades ==
    { F("vault.list", TRUE, "GET", <<"/projects/", "7", "/vault">>, <<>>, "none", Undefined),
      F("vault.get", TRUE, "GET", <<"/projects/", "7", "/vault/", "9">>, <<>>, "none", Undefined),
      F("vault.create", TRUE, "POST", <<"/projects/", "7", "/vault">>, <<>>, "data", Undefined),
      F("vault.update", TRUE, "PATCH", <<"/projects/", "7", "/vault/", "9">>, <<>>, "data", Undefined),
      F("vault.delete", TRUE, "DELETE", <<"/projects/", "7", "/vault/", "9">>, <<>>, "none", Undefined),
      F("techInfo.get", TRUE, "GET", <<"/projects/", "7", "/tech-info">>, <<>>, "none", Undefined),
      F("techInfo.update", TRUE, "PATCH", <<"/projects/", "7", "/tech-info">>, <<>>, "data", Undefined) }

TenantFacades ==
    { F("context.get", TRUE, "GET", <<"/context">>, <<>>, "none", Undefined),
      F("context.dashboard", TRUE, "GET", <<"/dashboard">>, <<>>, "none", Undefined),
      F("context.stats", TRUE, "GET", <<"/stats">>, <<>>, "none", Undefined),
      F("context.workload", TRUE, "GET", <<"/workload">>, <<>>, "none", Undefined),
      F("members.list", TRUE, "GET", <<"/members">>, <<>>, "none", Undefined),
      F("members.get", TRUE, "GET", <<"/members/", "u1">>, <<>>, "none", Undefined),
      F("members.invite", TRUE, "POST", <<"/members/invite">>, <<>>, "none",
        Obj(("email" :> Str("a@b.c")) @@ ("role" :> Str("member")))),
      F("members.updateRole", TRUE, "PATCH", <<"/members/", "u1">>, <<>>, "none",
        Obj("role" :> Str("admin"))),
      F("members.remove", TRUE, "DELETE", <<"/members/", "u1">>, <<>>, "none", Undefined),
      F("invites.list", TRUE, "GET", <<"/invites">>, <<>>, "none", Undefined),
      F("activity.list", TRUE, "GET", <<"/activity">>, <<>>, "params", Undefined),
      F("activity.forTask", TRUE, "GET", <<"/tasks/", "42", "/activity">>, <<>>, "none", Undefined),
      F("exportData.tasks", TRUE, "GET", <<"/export/tasks">>, <<Entry("format", Str("json"))>>, "none", Undefined),
      F("exportData.projects", TRUE, "GET", <<"/export/projects">>, <<Entry("format", Str("json"))>>, "none", Undefined),
      F("exportData.activity", TRUE, "GET", <<"/export/activity">>, <<Entry("format", Str("json"))>>, "none", Undefined) }

Facades ==
    GlobalFacades \cup TaskFacades \cup ProjectFacades \cup KnowledgeFacades
    \cup VaultFacades \cup TenantFacades

EntryPoints == Verbs \cup Facades

(* ------------------------------------------------------------------ *)
(* request(): one call                                                 *)
(* ------------------------------------------------------------------ *)

DEFAULT_TIMEOUT == 30000
MAX_RETRIES == 3
RETRY_DELAY == 1000

Calls == {"c1", "c2"}

NoBody == [present |-> FALSE, toks |-> <<>>]
Body(toks) == [present |-> TRUE, toks |-> toks]

NoRequest == [url |-> <<>>, method |-> "", body |-> NoBody, headers |-> <<>>]

\* a response as the server sent it: the status line, the two headers the
\* code reads (null when the header is absent), the body text as tokens,
\* and whether the connection dropped while the body was read
Response(status, ctype, retryAfter, body, cut) ==
    [status |-> status, ctype |-> ctype, retryAfter |-> retryAfter, body |-> body, cut |-> cut]

NoResponse == Response(0, Null, Null, <<>>, FALSE)

NoConfig == [apiKey |-> Undefined, apiUrl |-> Undefined, tenant |-> Undefined]

\* A call.  cfg is the configuration as it stood when the call was made;
\* sent, sleeps and hist record the fetches issued, the backoff delays and
\* how each attempt ended; caught records what each failed attempt threw;
\* overrides is the options.headers the call was made with.
IdleCall ==
    [pc |-> "idle", fn |-> "", scoped |-> FALSE, params |-> <<>>, data |-> Undefined,
     cfg |-> NoConfig, sync |-> FALSE, req |-> NoRequest, timeout |-> 0, attempt |-> 0, timer |-> "unset",
     lastError |-> NoError, error |-> NoError, result |-> Undefined,
     sent |-> <<>>, sleeps |-> <<>>, hist |-> <<>>, caught |-> <<>>, resp |-> NoResponse,
     overrides |-> <<>>]

\* contentType.includes('application/json')
IncludesJson(s) == s \in {"application/json", "application/json; charset=utf-8"}

\* only 200 taken for a success
ResponseOk_Only200(status) == status = 200

\* response.ok
ResponseOk(status) == status >= 200 /\ status <= 299

\* the envelope unwrapped by truthiness: data.data || data
Unwrap_Truthy(data) == OrElse(OptProp(data, "data"), data)

\* the envelope unwrapped unconditionally: data.data
Unwrap_Always(data) == OptProp(data, "data")

\* api.js line 100: unwrap the { data } envelope
Unwrap(data) == IF OptProp(data, "data") # Undefined THEN Prop(data, "data") ELSE data

\* what the try block does with a response: it returns a value or throws
Returned(val) == [kind |-> "return", value |-> val, error |-> NoError]
Thrown(err) == [kind |-> "throw", value |-> Undefined, error |-> err]

\* api.js lines 76-82: the body, parsed by the declared content type
ReadBody(resp) ==
    IF resp.cut THEN Thrown(JsError("TypeError", "terminated"))
    ELSE IF Truthy(resp.ctype) /\ IncludesJson(resp.ctype.v)
    THEN LET r == JsonParse(resp.body) IN
         IF r.ok THEN Returned(r.val)
         ELSE Thrown(JsError("SyntaxError", "Unexpected end of JSON input"))
    ELSE Returned(Str(TokensText(resp.body)))

\* api.js lines 85-91
RateLimited(resp) ==
    ApiError(Str("Rate limited. Try again in " \o JsString(OrElse(resp.retryAfter, Num(60)))
                 \o " seconds."),
             Num(429), Undefined)

\* the message taken from body.message before body.error.message
HttpError_TopMessageFirst(resp, data) ==
    LET message == OrElse(OrElse(OptProp(data, "message"),
                                 OptProp(OptProp(data, "error"), "message")),
                          Str("HTTP " \o ToString(resp.status)))
    IN ApiError(message, Num(resp.status), OptProp(OptProp(data, "error"), "details"))

\* api.js lines 94-97
HttpError(resp, data) ==
    LET message == OrElse(OrElse(OptProp(OptProp(data, "error"), "message"),
                                 OptProp(data, "message")),
                          Str("HTTP " \o ToString(resp.status)))
    IN ApiError(message, Num(resp.status), OptProp(OptProp(data, "error"), "details"))

\* the try block looking at the status before it reads the body
HandleResponse_StatusFirst(resp) ==
    IF resp.status = 429 THEN Thrown(RateLimited(resp))
    ELSE LET body == ReadBody(resp) IN
         IF ~ResponseOk(resp.status)
         THEN Thrown(HttpError(resp, IF body.kind = "throw" THEN Undefined ELSE body.value))
         ELSE IF body.kind = "throw" THEN body
         ELSE Returned(Unwrap(body.value))

\* api.js lines 75-100: the try block after fetch resolved
HandleResponse(resp) ==
    LET body == ReadBody(resp) IN
    IF body.kind = "throw" THEN body
    ELSE IF resp.status = 429 THEN Thrown(RateLimited(resp))
    ELSE IF ~ResponseOk(resp.status) THEN Thrown(HttpError(resp, body.value))
    ELSE Returned(Unwrap(body.value))

\* the client-error test without its upper bound: 5xx is not retried either
IsClientError_NoUpperBound(error) ==
    /\ error.name = "ApiError"
    /\ error.statusCode.t = "num"
    /\ error.statusCode.v >= 400 /\ error.statusCode.v # 429

\* api.js line 106: a client error, never retried
IsClientError(error) ==
    /\ error.name = "ApiError"
    /\ error.statusCode.t = "num"
    /\ error.statusCode.v >= 400 /\ error.statusCode.v < 500 /\ error.statusCode.v # 429

\* the loop bound off by one
IsLastAttempt_OffByOne(attempt) == attempt = MAX_RETRIES + 1

\* api.js line 116
IsLastAttempt(attempt) == attempt = MAX_RETRIES

\* the last error rethrown as it is
AfterLoop_Rethrow(lastError) == lastError

\* api.js lines 125-132: what is thrown once the loop is left
AfterLoop(lastError) ==
    IF lastError.name = "ApiError" THEN lastError
    ELSE ApiError(OrElse(Str(lastError.message), Str("Request failed after retries")),
                  OrElse(lastError.statusCode, Num(500)), Undefined)

\* the catch block sleeping the base delay before every retry
Catch_ConstantDelay(error, attempt) ==
    IF IsClientError(error) THEN [next |-> "throw", error |-> error, delay |-> 0]
    ELSE IF error.name = "AbortError"
    THEN [next |-> "throw", error |-> ApiError(Str("Request timed out"), Num(408), Undefined),
          delay |-> 0]
    ELSE IF IsLastAttempt(attempt)
    THEN [next |-> "throw", error |-> AfterLoop(error), delay |-> 0]
    ELSE [next |-> "sleep", error |-> NoError, delay |-> RETRY_DELAY]

\* the catch block without the AbortError branch: an abort is retried
Catch_RetryAbort(error, attempt) ==
    IF IsClientError(error) THEN [next |-> "throw", error |-> error, delay |-> 0]
    ELSE IF IsLastAttempt(attempt)
    THEN [next |-> "throw", error |-> AfterLoop(error), delay |-> 0]
    ELSE [next |-> "sleep", error |-> NoError, delay |-> RETRY_DELAY * attempt]

\* api.js lines 101-122: the catch block; what the call does next
Catch(error, attempt) ==
    IF IsClientError(error) THEN [next |-> "throw", error |-> error, delay |-> 0]
    ELSE IF error.name = "AbortError"
    THEN [next |-> "throw", error |-> ApiError(Str("Request timed out"), Num(408), Undefined),
          delay |-> 0]
    ELSE IF IsLastAttempt(attempt)
    THEN [next |-> "throw", error |-> AfterLoop(error), delay |-> 0]
    ELSE [next |-> "sleep", error |-> NoError, delay |-> RETRY_DELAY * attempt]

\* the spread the other way round: the defaults win over options.headers
Headers_DefaultsWin(apiKey, overrides) ==
    ("Content-Type" :> "application/json")
      @@ ("X-API-Key" :> JsString(apiKey))
      @@ ("User-Agent" :> "@erold/cli/1.0.0")
      @@ overrides

\* the headers of fetchOptions: the defaults, then options.headers
Headers(apiKey, overrides) ==
    overrides @@ ("Content-Type" :> "application/json")
              @@ ("X-API-Key" :> JsString(apiKey))
              @@ ("User-Agent" :> "@erold/cli/1.0.0")

\* request without the apiKey precondition
Request_NoKeyCheck(cl, endpoint, method, body) ==
    LET cfg == GetApiConfig
        req == [url |-> <<JsString(cfg.apiUrl)>> \o endpoint, method |-> method,
                body |-> body, headers |-> Headers(cfg.apiKey, <<>>)]
    IN [cl EXCEPT !.pc = "fetch", !.req = req, !.timeout = DEFAULT_TIMEOUT,
                  !.timer = "armed", !.attempt = 1, !.sent = <<req>>]

\* the options argument of request(): headers is the mapping of header
\* overrides (empty when the caller gives none), timeout is Undefined when
\* the caller gives none
Options(method, body, headers, timeout) ==
    [method |-> method, body |-> body, headers |-> headers, timeout |-> timeout]

NoHeaders == <<>>

\* api.js lines 39-71: request(endpoint, options) up to its first fetch
RequestOptions(cl, endpoint, options) ==
    LET cfg == GetApiConfig IN
    IF ~Truthy(cfg.apiKey)
    THEN [cl EXCEPT !.pc = "thrown", !.error = NotAuthenticated]
    ELSE LET req == [url |-> <<JsString(cfg.apiUrl)>> \o endpoint, method |-> options.method,
                     body |-> options.body, headers |-> Headers(cfg.apiKey, options.headers)]
         IN [cl EXCEPT !.pc = "fetch", !.req = req,
                       !.timeout = OrElse(options.timeout, Num(DEFAULT_TIMEOUT)).v,
                       !.timer = "armed", !.attempt = 1, !.sent = <<req>>]

\* request(endpoint, { method, body }), as get, post, patch and del call it
Request(cl, endpoint, method, body) ==
    RequestOptions(cl, endpoint, Options(method, body, NoHeaders, Undefined))

\* the body always that of the default argument
SendBody_IgnoresData(data) == Body(Stringify(Obj(<<>>)))

\* the body post and patch send: JSON.stringify(data), data = {} by default
SendBody(data) == Body(Stringify(IF data = Undefined THEN Obj(<<>>) ELSE data))

\* api.js lines 142-181: get, post, patch, del
Verb(cl, verb, endpoint, params, data) ==
    CASE verb = "GET" -> Request(cl, GetUrl(endpoint, params), "GET", NoBody)
      [] verb = "POST" -> Request(cl, endpoint, "POST", SendBody(data))
      [] verb = "PATCH" -> Request(cl, endpoint, "PATCH", SendBody(data))
      [] verb = "DELETE" -> Request(cl, endpoint, "DELETE", NoBody)

\* every entry point testing the key before it builds its path
Invoke_KeyFirst(f, params, data) ==
    LET cl == [IdleCall EXCEPT !.fn = f.fn, !.scoped = f.scoped, !.params = f.pre \o params,
                               !.cfg = GetApiConfig,
                               !.data = IF f.fixed # Undefined THEN f.fixed ELSE data]
        tp == GetTenantPath
    IN IF ~Truthy(GetApiConfig.apiKey)
       THEN [cl EXCEPT !.pc = "thrown", !.error = NotAuthenticated]
       ELSE IF f.scoped /\ ~tp.ok
       THEN [cl EXCEPT !.pc = "thrown", !.sync = TRUE, !.error = tp.error]
       ELSE Verb(cl, f.verb, (IF f.scoped THEN tp.path ELSE <<>>) \o f.path, cl.params, cl.data)

\* every entry point building its path with getTenantPath()
Invoke_AlwaysScoped(f, params, data) ==
    LET cl == [IdleCall EXCEPT !.fn = f.fn, !.scoped = f.scoped, !.params = f.pre \o params,
                               !.cfg = GetApiConfig,
                               !.data = IF f.fixed # Undefined THEN f.fixed ELSE data]
        tp == GetTenantPath
    IN IF ~tp.ok
       THEN [cl EXCEPT !.pc = "thrown", !.sync = TRUE, !.error = tp.error]
       ELSE Verb(cl, f.verb, tp.path \o f.path, cl.params, cl.data)

\* api.js lines 205-315: an entry point called with params / data; a scoped
\* one builds its path with getTenantPath() first, which may throw before
\* any verb is entered
Invoke(f, params, data) ==
    LET cl == [IdleCall EXCEPT !.fn = f.fn, !.scoped = f.scoped, !.params = f.pre \o params,
                               !.cfg = GetApiConfig,
                               !.data = IF f.fixed # Undefined THEN f.fixed ELSE data]
        tp == GetTenantPath
    IN IF f.scoped /\ ~tp.ok
       THEN [cl EXCEPT !.pc = "thrown", !.sync = TRUE, !.error = tp.error]
       ELSE Verb(cl, f.verb, (IF f.scoped THEN tp.path ELSE <<>>) \o f.path, cl.params, cl.data)

\* the catch block keeping the first error it saw: lastError = lastError || error
Fail_KeepsFirstError(cl, error, timer, seen) ==
    LET first == IF cl.lastError.name = "none" THEN error ELSE cl.lastError
        c == Catch(first, cl.attempt)
        cl2 == [cl EXCEPT !.timer = timer, !.lastError = first, !.hist = Append(@, seen),
                          !.caught = Append(@, error)]
    IN IF c.next = "throw"
       THEN [cl2 EXCEPT !.pc = "thrown", !.error = c.error]
       ELSE [cl2 EXCEPT !.pc = "sleep", !.sleeps = Append(@, c.delay)]

\* request('/test', options) called with options of the caller's own
InvokeRequest(options) ==
    RequestOptions([IdleCall EXCEPT !.fn = "request", !.cfg = GetApiConfig,
                                    !.overrides = options.headers],
                   <<"/test">>, options)

\* api.js lines 101-122 applied to a call whose attempt failed with error
Fail(cl, error, timer, seen) ==
    LET c == Catch(error, cl.attempt)
        cl2 == [cl EXCEPT !.timer = timer, !.lastError = error, !.hist = Append(@, seen),
                          !.caught = Append(@, error)]
    IN IF c.next = "throw"
       THEN [cl2 EXCEPT !.pc = "thrown", !.error = c.error]
       ELSE [cl2 EXCEPT !.pc = "sleep", !.sleeps = Append(@, c.delay)]

Seen(kind, status) == [kind |-> kind, status |-> status]

Settled(cl) == cl.pc \in {"returned", "thrown"}

(* ------------------------------------------------------------------ *)
(* Inputs                                                              *)
(* ------------------------------------------------------------------ *)

\* bounds of the input sets
MaxParams == 2
MaxDepth == 2

EnvUnset == [n \in EnvNames |-> Undefined]

ConfigValues ==
    [k \in ConfigKeys |->
       CASE k = "apiKey" -> {Str("erold_k1")}
         [] k = "tenant" -> {Str("acme")}
         [] k = "apiUrl" -> {Str("https://api.test.com")}]

JsonType == Str("application/json")
JsonResponse(status, val) == Response(status, JsonType, Null, Stringify(val), FALSE)
TextResponse(status, text) == Response(status, Str("text/html"), Null, <<Tok("p", text, 0)>>, FALSE)
\* a body that is no JSON text under a JSON content type
BadJsonResponse(status) == Response(status, JsonType, Null, <<P("{")>>, FALSE)

ErrorBody(msg) == Obj("error" :> Obj("message" :> Str(msg)))

\* the responses of the transport specification: every status class, with
\* well-formed, malformed, textual and missing bodies
TransportResponses ==
    { JsonResponse(200, Obj("data" :> Obj("name" :> Str("x")))),
      Response(204, Null, Null, <<>>, FALSE),
      BadJsonResponse(200),
      JsonResponse(400, Obj("error" :> Obj(("message" :> Str("Invalid"))
                                           @@ ("details" :> Obj("name" :> Str("required")))))),
      JsonResponse(401, Obj("message" :> Str("Unauthorized"))),
      JsonResponse(403, Obj(<<>>)),
      JsonResponse(404, ErrorBody("Not found")),
      BadJsonResponse(404),
      TextResponse(404, "Not Found"),
      Response(429, JsonType, Str("5"), Stringify(Obj(<<>>)), FALSE),
      JsonResponse(429, Obj(<<>>)),
      BadJsonResponse(429),
      JsonResponse(500, ErrorBody("boom")),
      TextResponse(503, "Service Unavailable"),
      BadJsonResponse(503),
      Response(500, JsonType, Null, Stringify(ErrorBody("boom")), TRUE) }

NetErrors == {"fetch failed", ""}

SomeParams == {<<>>, <<Entry("status", Str("active")), Entry("limit", Num(10))>>}
SomeData == {Undefined, Obj("name" :> Str("Test"))}

F_get == CHOOSE f \in Verbs : f.fn = "get"
F_post == CHOOSE f \in Verbs : f.fn = "post"

TransportPool ==
    [calls |-> {"c1"},
     entries |-> Verbs \cup {f \in Facades : f.fn \in {"user.me", "tasks.list"}},
     params |-> SomeParams,
     data |-> SomeData,
     responses |-> TransportResponses,
     neterrs |-> NetErrors,
     cfgkeys |-> {"apiKey", "tenant"},
     values |-> ConfigValues,
     envs |-> {EnvUnset},
     options |-> {}]

\* every entry point, few responses, the configuration changing freely
FacadesPool ==
    [calls |-> {"c1"},
     entries |-> EntryPoints,
     params |-> SomeParams,
     data |-> SomeData,
     responses |-> {JsonResponse(200, Obj("data" :> Arr(<<>>))), JsonResponse(404, ErrorBody("Not found"))},
     neterrs |-> {"fetch failed"},
     cfgkeys |-> {"apiKey", "tenant"},
     values |-> ConfigValues,
     envs |-> {EnvUnset, [EnvUnset EXCEPT !["EROLD_TENANT"] = Str("envco")],
               [EnvUnset EXCEPT !["EROLD_APIKEY"] = Str("erold_env")]},
     options |-> {}]

ParamKeys == {"status", "limit", "foo"}
ParamValues ==
    {Undefined, Null, Str(""), Str("active"), Str("in progress"), Str("a&b=c"),
     Num(0), Num(10), Bool(FALSE)}

RECURSIVE ParamsUpTo(_)
\* the params mappings of at most n entries: distinct keys, in any order
ParamsUpTo(n) ==
    IF n = 0 THEN {<<>>}
    ELSE LET shorter == ParamsUpTo(n - 1) IN
         shorter \cup
         {Append(ps, Entry(k, val)) :
            ps \in {q \in shorter : Len(q) = n - 1},
            k \in ParamKeys, val \in ParamValues}

DistinctKeys(ps) == \A i, j \in DOMAIN ps : ps[i].key = ps[j].key => i = j

EncodePool ==
    [calls |-> {"c1"},
     entries |-> {F_get},
     params |-> {ps \in ParamsUpTo(MaxParams) : DistinctKeys(ps)},
     data |-> {Undefined},
     responses |-> {JsonResponse(200, Obj("data" :> Arr(<<>>)))},
     neterrs |-> {"fetch failed"},
     cfgkeys |-> {"apiUrl"},
     values |-> ConfigValues,
     envs |-> {[EnvUnset EXCEPT !["EROLD_APIKEY"] = Str("erold_env")]},
     options |-> {}]

JsonLeaves == {Null, Bool(FALSE), Bool(TRUE), Num(0), Num(7), Str(""), Str("x"), Arr(<<>>), Obj(<<>>)}

RECURSIVE JsonValues(_)
\* JSON values nested at most d deep
JsonValues(d) ==
    IF d = 0 THEN JsonLeaves
    ELSE LET inner == JsonValues(d - 1) IN
         inner \cup {Obj(k :> x) : k \in {"data", "message"}, x \in inner}
               \cup {Arr(<<x>>) : x \in inner}

JsonPool == JsonValues(MaxDepth)

\* 2xx responses: every JSON value as a JSON body, and bodies that are not
\* declared JSON
UnwrapPool ==
    [calls |-> {"c1"},
     entries |-> {F_get, F_post},
     params |-> {<<>>},
     data |-> {Obj("name" :> Str("Test"))},
     responses |-> {JsonResponse(200, x) : x \in JsonPool}
                   \cup {Response(201, Str("application/json; charset=utf-8"), Null,
                                  Stringify(Obj("data" :> Num(7))), FALSE),
                         TextResponse(200, "OK"),
                         Response(200, Str("text/plain"), Null, Stringify(Obj("data" :> Num(7))), FALSE),
                         Response(204, Null, Null, <<>>, FALSE)},
     neterrs |-> {"fetch failed"},
     cfgkeys |-> {"apiKey"},
     values |-> ConfigValues,
     envs |-> {EnvUnset},
     options |-> {}]

\* one call at a time, one response of each class that the loop treats
\* differently, and a network that may also never answer
LivePool ==
    [calls |-> {"c1"},
     entries |-> {F_get, F_post},
     params |-> {<<>>},
     data |-> {Obj("name" :> Str("Test"))},
     responses |-> {JsonResponse(200, Obj("data" :> Obj("name" :> Str("x")))),
                    JsonResponse(404, ErrorBody("Not found")),
                    JsonResponse(429, Obj(<<>>)),
                    JsonResponse(500, ErrorBody("boom"))},
     neterrs |-> {"fetch failed"},
     cfgkeys |-> {"apiKey"},
     values |-> ConfigValues,
     envs |-> {EnvUnset},
     options |-> {}]

\* every key of the store changing between two values, calls in between
StorePool ==
    [calls |-> {"c1"},
     entries |-> {F_get} \cup {f \in Facades : f.fn \in {"tasks.list", "user.me"}},
     params |-> {<<>>},
     data |-> {Undefined},
     responses |-> {JsonResponse(200, Obj("data" :> Arr(<<>>))), JsonResponse(500, ErrorBody("boom"))},
     neterrs |-> {"fetch failed"},
     cfgkeys |-> ConfigKeys,
     values |-> [k \in ConfigKeys |->
                   CASE k = "apiKey" -> {Str("erold_k1"), Str("erold_k2")}
                     [] k = "tenant" -> {Str("acme"), Str("globex")}
                     [] k = "apiUrl" -> {Str("https://api.test.com"), Str("https://eu.test.com")}],
     envs |-> {EnvUnset},
     options |-> {}]

\* two calls in flight at once
PairPool ==
    [calls |-> {"c1", "c2"},
     entries |-> {F_get},
     params |-> {<<>>},
     data |-> {Undefined},
     responses |-> {JsonResponse(200, Obj("data" :> Arr(<<>>))), JsonResponse(429, Obj(<<>>))},
     neterrs |-> {"fetch failed"},
     cfgkeys |-> {"apiKey"},
     values |-> ConfigValues,
     envs |-> {EnvUnset},
     options |-> {}]

\* header overrides: none, a further header, and one for each default
SomeOverrides ==
    { NoHeaders,
      "X-Request-Id" :> "r1",
      "Content-Type" :> "text/plain",
      "X-API-Key" :> "erold_other",
      ("User-Agent" :> "curl/8") @@ ("Accept" :> "text/csv") }

\* bodies for post and patch: none, null, flat and nested objects
WireData ==
    { Undefined, Null, Obj("name" :> Str("Test")),
      Obj(("taskIds" :> Arr(<<Str("1"), Str("2")>>))
          @@ ("updates" :> Obj(("percent" :> Num(50)) @@ ("notes" :> Null)))),
      Obj(("summary" :> Undefined) @@ ("reason" :> Str("flaky"))) }

\* what is put on the wire: the verbs with their bodies, and the executor
\* called with options.headers
WirePool ==
    [calls |-> {"c1"},
     entries |-> Verbs,
     params |-> SomeParams,
     data |-> WireData,
     responses |-> {JsonResponse(200, Obj("data" :> Arr(<<>>))), JsonResponse(500, ErrorBody("boom"))},
     neterrs |-> {"fetch failed"},
     cfgkeys |-> {"apiKey"},
     values |-> ConfigValues,
     envs |-> {EnvUnset},
     options |-> {Options(m, NoBody, h, t) :
                    m \in {"GET"}, h \in SomeOverrides, t \in {Undefined, Num(5000)}}]

SomeDetails == Obj("name" :> Str("required"))

\* Error bodies, each with the message and details an ApiError built from
\* it is to carry ("" stands for the generic message).  json says whether
\* the response declares application/json.
ErrorCase(json, body, message, details) ==
    [json |-> json, body |-> body, message |-> message, details |-> details]

ErrorCases ==
    { ErrorCase(TRUE, Stringify(Obj("error" :> Obj(("message" :> Str("Invalid"))
                                                   @@ ("details" :> SomeDetails)))),
                "Invalid", SomeDetails),
      ErrorCase(TRUE, Stringify(Obj("error" :> Obj("message" :> Str("Not found")))),
                "Not found", Null),
      ErrorCase(TRUE, Stringify(Obj("message" :> Str("Unauthorized"))), "Unauthorized", Null),
      ErrorCase(TRUE, Stringify(Obj(("error" :> Obj("message" :> Str("Inner")))
                                    @@ ("message" :> Str("Outer")))),
                "Inner", Null),
      ErrorCase(TRUE, Stringify(Obj(("error" :> Obj("details" :> SomeDetails))
                                    @@ ("message" :> Str("Outer")))),
                "Outer", SomeDetails),
      ErrorCase(TRUE, Stringify(Obj(("error" :> Obj("message" :> Str("")))
                                    @@ ("message" :> Str("Outer")))),
                "Outer", Null),
      ErrorCase(TRUE, Stringify(Obj("error" :> Str("oops"))), "", Null),
      ErrorCase(TRUE, Stringify(Obj("error" :> Obj(<<>>))), "", Null),
      ErrorCase(TRUE, Stringify(Obj(<<>>)), "", Null),
      ErrorCase(TRUE, Stringify(Null), "", Null),
      ErrorCase(TRUE, Stringify(Arr(<<Str("x")>>)), "", Null),
      ErrorCase(FALSE, <<Tok("p", "Not Found", 0)>>, "", Null),
      ErrorCase(FALSE, Stringify(Obj("message" :> Str("Outer"))), "", Null) }

ErrorStatuses == {400, 404, 500}

\* non-2xx responses with every shape of error body
ErrorsPool ==
    [calls |-> {"c1"},
     entries |-> {F_get, F_post},
     params |-> {<<>>},
     data |-> {Obj("name" :> Str("Test"))},
     responses |-> {Response(st, IF ec.json THEN JsonType ELSE Str("text/html"), Null,
                             ec.body, FALSE) : st \in ErrorStatuses, ec \in ErrorCases},
     neterrs |-> {"fetch failed"},
     cfgkeys |-> {"apiKey"},
     values |-> ConfigValues,
     envs |-> {EnvUnset},
     options |-> {}]

\* the keys a user passes to login or types at its prompt
CliKeys == {Str("yet_k1"), Str("erold_k1"), Str("sk_k1")}

\* the tenants a user names on the command line
CliTenants == {Str("acme"), Str("globex")}

TenantItem(id, name) == Obj("id" :> Str(id) @@ "name" :> Str(name))

\* the environments of the commands: nothing set, a key, a tenant and a
\* URL, an empty tenant with the URL default of the schema
CliEnvs ==
    { EnvUnset,
      [EnvUnset EXCEPT !["EROLD_APIKEY"] = Str("erold_env")],
      [EnvUnset EXCEPT !["EROLD_TENANT"] = Str("envco"),
                       !["EROLD_APIURL"] = Str("https://env.test.com")],
      [EnvUnset EXCEPT !["EROLD_TENANT"] = Str(""),
                       !["EROLD_API_URL"] = Str("https://default.test.com")] }

\* the commands of the CLI: the server knows the user and one or two
\* tenants, rejects the key or answers null; the network may fail
CliPool ==
    [calls |-> {"c1"},
     entries |-> {},
     params |-> {<<>>},
     data |-> {Undefined},
     responses |-> {JsonResponse(200, Obj("data" :> Obj("name" :> Str("Ann") @@ "email" :> Str("ann@test.com")))),
                    JsonResponse(200, Obj("data" :> Arr(<<TenantItem("acme", "Acme")>>))),
                    JsonResponse(200, Obj("data" :> Arr(<<TenantItem("acme", "Acme"),
                                                         TenantItem("globex", "Globex")>>))),
                    JsonResponse(200, Null),
                    JsonResponse(401, ErrorBody("Invalid API key"))},
     neterrs |-> {"fetch failed"},
     cfgkeys |-> ConfigKeys,
     values |-> ConfigValues,
     envs |-> CliEnvs,
     options |-> {}]

\* the input sets in force
Pool ==
    CASE inputs = "transport" -> TransportPool
      [] inputs = "facades" -> FacadesPool
      [] inputs = "encode" -> EncodePool
      [] inputs = "unwrap" -> UnwrapPool
      [] inputs = "live" -> LivePool
      [] inputs = "store" -> StorePool
      [] inputs = "pair" -> PairPool
      [] inputs = "wire" -> WirePool
      [] inputs = "errors" -> ErrorsPool
      [] inputs = "cli" -> CliPool

(* ------------------------------------------------------------------ *)
(* Actions                                                             *)
(* ------------------------------------------------------------------ *)

\* a command calls an entry point
StartCall(c) ==
    /\ c \in Pool.calls
    /\ calls[c].pc = "idle"
    /\ \/ \E f \in Pool.entries :
            \E params \in (IF f.takes = "params" THEN Pool.params ELSE {<<>>}) :
              \E data \in (IF f.takes = "data" THEN Pool.data ELSE {Undefined}) :
                calls' = [calls EXCEPT ![c] = Invoke(f, params, data)]
       \/ \E options \in Pool.options :
            calls' = [calls EXCEPT ![c] = InvokeRequest(options)]
    /\ UNCHANGED <<store, env, inputs, cmd>>

\* a response handled with no clearTimeout: the timer stays as it was
FetchResolves_LeavesTimer(c) ==
    /\ calls[c].pc = "fetch"
    /\ \E resp \in Pool.responses :
         LET out == HandleResponse(resp)
             cl == [calls[c] EXCEPT !.resp = resp]
         IN calls' = [calls EXCEPT ![c] =
              IF out.kind = "return"
              THEN [cl EXCEPT !.pc = "returned", !.result = out.value,
                              !.hist = Append(@, Seen("ok", resp.status))]
              ELSE Fail(cl, out.error, cl.timer,
                        Seen(IF out.error.name = "ApiError" THEN "http"
                             ELSE IF out.error.name = "SyntaxError" THEN "parse" ELSE "cut",
                             resp.status))]
    /\ UNCHANGED <<store, env, inputs, cmd>>

\* the fetch of the current attempt resolves with a response
FetchResolves(c) ==
    /\ calls[c].pc = "fetch"
    /\ \E resp \in Pool.responses :
         LET out == HandleResponse(resp)
             cl == [calls[c] EXCEPT !.resp = resp]
         IN calls' = [calls EXCEPT ![c] =
              IF out.kind = "return"
              THEN [cl EXCEPT !.pc = "returned", !.result = out.value, !.timer = "cleared",
                              !.hist = Append(@, Seen("ok", resp.status))]
              ELSE Fail(cl, out.error, "cleared",
                        Seen(IF out.error.name = "ApiError" THEN "http"
                             ELSE IF out.error.name = "SyntaxError" THEN "parse" ELSE "cut",
                             resp.status))]
    /\ UNCHANGED <<store, env, inputs, cmd>>

\* the fetch of the current attempt rejects: a transport failure
FetchRejects(c) ==
    /\ calls[c].pc = "fetch"
    /\ \E m \in Pool.neterrs :
         calls' = [calls EXCEPT ![c] =
                     Fail(calls[c], JsError("TypeError", m), "cleared", Seen("net", 0))]
    /\ UNCHANGED <<store, env, inputs, cmd>>

\* one abort controller shared by the calls: the timer of one call aborts
\* every pending fetch
TimerFires_SharedController(c) ==
    /\ calls[c].pc = "fetch"
    /\ calls[c].timer = "armed"
    /\ calls' = [d \in Calls |->
                   IF calls[d].pc = "fetch"
                   THEN Fail(calls[d], JsError("AbortError", "This operation was aborted"),
                             "fired", Seen("abort", 0))
                   ELSE calls[d]]
    /\ UNCHANGED <<store, env, inputs, cmd>>

\* the timeout timer expires: controller.abort() rejects the pending fetch
TimerFires(c) ==
    /\ calls[c].pc = "fetch"
    /\ calls[c].timer = "armed"
    /\ calls' = [calls EXCEPT ![c] =
                   Fail(calls[c], JsError("AbortError", "This operation was aborted"),
                        "fired", Seen("abort", 0))]
    /\ UNCHANGED <<store, env, inputs, cmd>>

\* the loop reading the configuration again before each attempt
SleepDone_RereadsConfig(c) ==
    /\ calls[c].pc = "sleep"
    /\ LET cfg == GetApiConfig
           req == [calls[c].req EXCEPT !.url = <<JsString(cfg.apiUrl)>> \o Tail(@),
                                       !.headers = Headers(cfg.apiKey, calls[c].overrides)]
       IN calls' = [calls EXCEPT ![c] = [@ EXCEPT !.pc = "fetch", !.attempt = @ + 1,
                                                  !.req = req, !.sent = Append(@, req)]]
    /\ UNCHANGED <<store, env, inputs, cmd>>

\* the backoff sleep ends: the loop issues the next fetch
SleepDone(c) ==
    /\ calls[c].pc = "sleep"
    /\ calls' = [calls EXCEPT ![c] = [@ EXCEPT !.pc = "fetch", !.attempt = @ + 1,
                                               !.sent = Append(@, calls[c].req)]]
    /\ UNCHANGED <<store, env, inputs, cmd>>

\* the awaiting command takes the outcome of a settled call
Deliver(c) ==
    /\ Settled(calls[c])
    /\ calls' = [calls EXCEPT ![c] = IdleCall]
    /\ UNCHANGED <<store, env, inputs, cmd>>

\* config.set(key, value)
ConfigSet(key, val) ==
    /\ store' = [store EXCEPT ![key] = val]
    /\ UNCHANGED <<env, inputs, calls, cmd>>

\* config.remove(key)
ConfigRemove(key) ==
    /\ store' = [store EXCEPT ![key] = Undefined]
    /\ UNCHANGED <<env, inputs, calls, cmd>>

Next ==
    \/ \E c \in Calls : StartCall(c)
    \/ \E c \in Calls : FetchResolves(c)
    \/ \E c \in Calls : FetchRejects(c)
    \/ \E c \in Calls : TimerFires(c)
    \/ \E c \in Calls : SleepDone(c)
    \/ \E c \in Calls : Deliver(c)
    \/ \E key \in Pool.cfgkeys : \E val \in Pool.values[key] : ConfigSet(key, val)
    \/ \E key \in Pool.cfgkeys : ConfigRemove(key)

(* ------------------------------------------------------------------ *)
(* Commands                                                            *)
(* ------------------------------------------------------------------ *)

\* no command is running; a running command records its arguments, what
\* the store held when it began, the value its first call returned, why it
\* failed and the error it printed
IdleCmd ==
    [name |-> "none", pc |-> "idle", key |-> Undefined, tenant |-> Undefined,
     user |-> Undefined, before |-> <<>>, failed |-> "", said |-> ""]

\* the call a command awaits
CmdCall == "c1"

UserMe == CHOOSE f \in Facades : f.fn = "user.me"
TenantsList == CHOOSE f \in Facades : f.fn = "tenants.list"
\* tenants.get(id)
TenantsGet(id) == [(CHOOSE f \in Facades : f.fn = "tenants.get") EXCEPT !.path = <<"/tenants/", id>>]

Nullish(val) == val.t \in {"undefined", "null"}

\* val.length of a value that is not nullish
Length(val) == IF val.t = "arr" THEN Num(Len(val.v)) ELSE Undefined

\* a > 0
Positive(a) == a.t = "num" /\ a.v > 0

NotLoggedIn == "Not logged in. Run yet login first."

\* a command ended by process.exit(1) after printing message
Exit1(c, failed, message) == [c EXCEPT !.pc = "exit1", !.failed = failed, !.said = message]

\* setConfig(key, value) for one of the known keys: the value is stored
\* (an apiKey of another prefix is stored with a warning)
SetCommand(key, val) == cmd.pc = "idle" /\ ConfigSet(key, val)

\* config.remove(key), the operation of the config module, applied
\* between two commands
RemoveBetweenCommands(key) == cmd.pc = "idle" /\ ConfigRemove(key)

\* loginCommand up to its first await of the network: the key of the
\* options or of the prompt, the format test, the provisional save and
\* the call of user.me
LoginStart(key, tenant) ==
    /\ cmd.pc = "idle"
    /\ UNCHANGED <<env, inputs>>
    /\ \E answer \in {k \in CliKeys : StartsWith(k.v, "yet_")} :
         LET k == IF Truthy(key) THEN key ELSE answer
             c == [IdleCmd EXCEPT !.name = "login", !.key = k, !.tenant = tenant,
                                  !.before = store]
         IN IF ~StartsWith(k.v, "yet_")
            THEN /\ cmd' = Exit1(c, "format", "Invalid API key format. Keys should start with yet_")
                 /\ UNCHANGED <<store, calls>>
            ELSE /\ store' = SaveCredentials(store, k, OrElse(tenant, Str("")))
                 /\ cmd' = [c EXCEPT !.pc = "login.me"]
                 /\ calls' = [calls EXCEPT ![CmdCall] = Invoke(UserMe, <<>>, Undefined)']

\* loginCommand resumes after user.me: the catch block when it threw, the
\* call of tenants.list otherwise
LoginMeDone ==
    /\ cmd.name = "login" /\ cmd.pc = "login.me"
    /\ Settled(calls[CmdCall])
    /\ IF calls[CmdCall].pc = "thrown"
       THEN /\ store' = ClearCredentials(store)
            /\ cmd' = Exit1(cmd, "user.me", calls[CmdCall].error.message)
            /\ calls' = [calls EXCEPT ![CmdCall] = IdleCall]
       ELSE /\ cmd' = [cmd EXCEPT !.pc = "login.tenants", !.user = calls[CmdCall].result]
            /\ calls' = [calls EXCEPT ![CmdCall] = Invoke(TenantsList, <<>>, Undefined)]
            /\ UNCHANGED store
    /\ UNCHANGED <<env, inputs>>

\* the tenant loginCommand saves: the one of the options, the only one of
\* the list, or the one chosen at the prompt
LoginTenant(tenant, tenants, choice) ==
    IF ~Truthy(tenant) /\ Positive(Length(tenants))
    THEN IF Length(tenants) = Num(1) THEN Prop(tenants.v[1], "id") ELSE choice
    ELSE tenant

\* the statements of the try block after tenants.list that throw a
\* TypeError: tenants.length and user.name of a nullish value, tenants.find
\* of a value that is no array
LoginThrows(tenant, user, tenants, choice) ==
    \/ ~Truthy(tenant) /\ Nullish(tenants)
    \/ Nullish(user)
    \/ Truthy(LoginTenant(tenant, tenants, choice)) /\ tenants.t # "arr"

\* loginCommand resumes after tenants.list: the catch block when it threw;
\* otherwise the tenant is settled, the credentials are saved for good and
\* the command reports the user
LoginTenantsDone ==
    /\ cmd.name = "login" /\ cmd.pc = "login.tenants"
    /\ Settled(calls[CmdCall])
    /\ LET tenants == calls[CmdCall].result
           ids == IF tenants.t = "arr"
                  THEN {Prop(tenants.v[i], "id") : i \in DOMAIN tenants.v} ELSE {}
       IN IF calls[CmdCall].pc = "thrown"
          THEN /\ store' = ClearCredentials(store)
               /\ cmd' = Exit1(cmd, "tenants.list", calls[CmdCall].error.message)
          ELSE \E choice \in ids \cup {Undefined} :
                 IF LoginThrows(cmd.tenant, cmd.user, tenants, choice)
                 THEN /\ store' = ClearCredentials(store)
                      /\ cmd' = Exit1(cmd, "TypeError", "Cannot read properties")
                 ELSE /\ choice \in ids \/ ids = {}
                      /\ store' = SaveCredentials(store, cmd.key,
                                                   LoginTenant(cmd.tenant, tenants, choice))
                      /\ cmd' = [cmd EXCEPT !.pc = "done",
                                            !.tenant = LoginTenant(cmd.tenant, tenants, choice)]
    /\ calls' = [calls EXCEPT ![CmdCall] = IdleCall]
    /\ UNCHANGED <<env, inputs>>

\* logoutCommand: the credentials are cleared when the user confirms
LogoutCommand(confirm) ==
    /\ cmd.pc = "idle"
    /\ store' = IF confirm THEN ClearCredentials(store) ELSE store
    /\ cmd' = [IdleCmd EXCEPT !.name = "logout", !.pc = "done", !.before = store]
    /\ UNCHANGED <<env, inputs, calls>>

\* whoamiCommand up to its await: the isConfigured gate, then user.me
WhoamiStart ==
    /\ cmd.pc = "idle"
    /\ LET c == [IdleCmd EXCEPT !.name = "whoami", !.before = store]
       IN IF ~IsConfigured
          THEN cmd' = Exit1(c, "gate", NotLoggedIn) /\ UNCHANGED calls
          ELSE /\ cmd' = [c EXCEPT !.pc = "whoami.me"]
               /\ calls' = [calls EXCEPT ![CmdCall] = Invoke(UserMe, <<>>, Undefined)]
    /\ UNCHANGED <<store, env, inputs>>

\* whoamiCommand resumes after user.me
WhoamiDone ==
    /\ cmd.name = "whoami" /\ cmd.pc = "whoami.me"
    /\ Settled(calls[CmdCall])
    /\ cmd' = IF calls[CmdCall].pc = "thrown"
              THEN Exit1(cmd, "user.me", calls[CmdCall].error.message)
              ELSE IF Nullish(calls[CmdCall].result)
              THEN Exit1(cmd, "TypeError", "Cannot read properties")
              ELSE [cmd EXCEPT !.pc = "done", !.user = calls[CmdCall].result]
    /\ calls' = [calls EXCEPT ![CmdCall] = IdleCall]
    /\ UNCHANGED <<store, env, inputs>>

\* switchCommand storing the tenant before it is verified
SwitchStart_SetsFirst(tenant) ==
    /\ cmd.pc = "idle"
    /\ UNCHANGED <<env, inputs>>
    /\ LET c == [IdleCmd EXCEPT !.name = "switch", !.tenant = tenant, !.before = store]
       IN IF ~IsConfigured
          THEN cmd' = Exit1(c, "gate", NotLoggedIn) /\ UNCHANGED <<store, calls>>
          ELSE /\ store' = [store EXCEPT !.tenant = tenant]
               /\ cmd' = [c EXCEPT !.pc = "switch.get"]
               /\ calls' = [calls EXCEPT ![CmdCall] =
                               Invoke(TenantsGet(tenant.v), <<>>, Undefined)']

\* switchCommand up to its await: the isConfigured gate, then
\* tenants.get(tenant)
SwitchStart(tenant) ==
    /\ cmd.pc = "idle"
    /\ LET c == [IdleCmd EXCEPT !.name = "switch", !.tenant = tenant, !.before = store]
       IN IF ~IsConfigured
          THEN cmd' = Exit1(c, "gate", NotLoggedIn) /\ UNCHANGED calls
          ELSE /\ cmd' = [c EXCEPT !.pc = "switch.get"]
               /\ calls' = [calls EXCEPT ![CmdCall] =
                               Invoke(TenantsGet(tenant.v), <<>>, Undefined)]
    /\ UNCHANGED <<store, env, inputs>>

\* switchCommand resumes after tenants.get: the tenant is stored when the
\* call returned, and tenantInfo.name is read after that
SwitchDone ==
    /\ cmd.name = "switch" /\ cmd.pc = "switch.get"
    /\ Settled(calls[CmdCall])
    /\ IF calls[CmdCall].pc = "thrown"
       THEN /\ cmd' = Exit1(cmd, "tenants.get", calls[CmdCall].error.message)
            /\ UNCHANGED store
       ELSE /\ store' = [store EXCEPT !.tenant = cmd.tenant]
            /\ cmd' = IF Nullish(calls[CmdCall].result)
                      THEN Exit1(cmd, "TypeError", "Cannot read properties")
                      ELSE [cmd EXCEPT !.pc = "done"]
    /\ calls' = [calls EXCEPT ![CmdCall] = IdleCall]
    /\ UNCHANGED <<env, inputs>>

\* the process of the command ends; the next command finds the store as
\* this one left it
CommandEnds ==
    /\ cmd.pc \in {"done", "exit1"}
    /\ cmd' = IdleCmd
    /\ UNCHANGED <<store, env, inputs, calls>>

\* the commands of the CLI, one at a time, and the network they wait for
NextCli ==
    \/ \E key \in CliKeys \cup {Undefined} : \E tenant \in CliTenants \cup {Undefined} :
         LoginStart(key, tenant)
    \/ LoginMeDone
    \/ LoginTenantsDone
    \/ \E confirm \in BOOLEAN : LogoutCommand(confirm)
    \/ WhoamiStart
    \/ WhoamiDone
    \/ \E tenant \in CliTenants : SwitchStart(tenant)
    \/ SwitchDone
    \/ CommandEnds
    \/ \E key \in Pool.cfgkeys : \E val \in Pool.values[key] : SetCommand(key, val)
    \/ \E key \in Pool.cfgkeys : RemoveBetweenCommands(key)
    \/ FetchResolves(CmdCall)
    \/ FetchRejects(CmdCall)
    \/ TimerFires(CmdCall)
    \/ SleepDone(CmdCall)

(* ------------------------------------------------------------------ *)
(* Specifications                                                      *)
(* ------------------------------------------------------------------ *)

\* the state after the modules are loaded, the inputs drawn from pool p
InitWith(p) ==
    /\ inputs = p
    /\ env \in Pool.envs
    /\ store = SchemaDefaults(env)
    /\ calls = [c \in Calls |-> IdleCall]
    /\ cmd = IdleCmd

Init == InitWith("transport")
InitFacades == InitWith("facades")
InitEncode == InitWith("encode")
InitUnwrap == InitWith("unwrap")

Spec == Init /\ [][Next]_vars
SpecFacades == InitFacades /\ [][Next]_vars
SpecEncode == InitEncode /\ [][Next]_vars
SpecUnwrap == InitUnwrap /\ [][Next]_vars

InitLive == InitWith("live")
InitStore == InitWith("store")
SpecStore == InitStore /\ [][Next]_vars
InitPair == InitWith("pair")
SpecPair == InitPair /\ [][Next]_vars
InitWire == InitWith("wire")
SpecWire == InitWire /\ [][Next]_vars
InitErrors == InitWith("errors")
SpecErrors == InitErrors /\ [][Next]_vars
InitCli == InitWith("cli")
SpecCli == InitCli /\ [][NextCli]_vars

\* What the event loop guarantees: a timer that is set and not cleared
\* fires (the abort timer, the backoff sleep), and a settled promise
\* resumes its awaiter.  Nothing makes the network answer.
Fairness ==
    \A c \in Calls :
      WF_vars(TimerFires(c)) /\ WF_vars(SleepDone(c)) /\ WF_vars(Deliver(c))

SpecLive == InitLive /\ [][Next]_vars /\ Fairness

(* ------------------------------------------------------------------ *)
(* Properties                                                          *)
(* ------------------------------------------------------------------ *)

Started(cl) == cl.pc # "idle"
HadKey(cl) == Truthy(cl.cfg.apiKey)
HadTenant(cl) == Truthy(cl.cfg.tenant)
FailedWith(cl, status) ==
    cl.pc = "thrown" /\ cl.error.name = "ApiError" /\ cl.error.statusCode = Num(status)
NoNetwork(cl) == cl.sent = <<>> /\ cl.attempt = 0 /\ cl.sleeps = <<>>

ScopedNames ==
    {f.fn : f \in TaskFacades \cup ProjectFacades \cup KnowledgeFacades
                  \cup VaultFacades \cup TenantFacades}

\* C1 as stated: every call made with no API key configured, whatever the
\* entry point, fails with ApiError 401 and issues no fetch.
C1_NoKeyAlways401 ==
    \A c \in Calls :
      (Started(calls[c]) /\ ~HadKey(calls[c]))
        => (FailedWith(calls[c], 401) /\ NoNetwork(calls[c]))

\* C1 amended: a call made with no API key configured issues no fetch and
\* fails with an ApiError; its status is 401, except for a tenant-scoped
\* facade called with no tenant configured either, which fails with 400.
C1_NoKeyFailsBeforeNetwork ==
    \A c \in Calls :
      (Started(calls[c]) /\ ~HadKey(calls[c]))
        => /\ NoNetwork(calls[c])
           /\ IF calls[c].fn \in ScopedNames /\ ~HadTenant(calls[c])
              THEN FailedWith(calls[c], 400)
              ELSE FailedWith(calls[c], 401)

\* a tenant-scoped facade, tenant configured, no key: 401 and no fetch
C1_Witness ==
    \E c \in Calls :
      /\ calls[c].fn = "tasks.create" /\ HadTenant(calls[c]) /\ ~HadKey(calls[c])
      /\ FailedWith(calls[c], 401) /\ NoNetwork(calls[c])

\* C2: a tenant-scoped facade called with no tenant configured fails with
\* ApiError 400; no fetch is issued and nothing is retried.
C2_NoTenant400 ==
    \A c \in Calls :
      (Started(calls[c]) /\ calls[c].fn \in ScopedNames /\ ~HadTenant(calls[c]))
        => (FailedWith(calls[c], 400) /\ NoNetwork(calls[c]))

\* exportData.tasks with a key but no tenant has failed with 400
C2_Witness ==
    \E c \in Calls :
      /\ calls[c].fn = "exportData.tasks" /\ HadKey(calls[c]) /\ ~HadTenant(calls[c])
      /\ FailedWith(calls[c], 400) /\ NoNetwork(calls[c])

\* attempt i of the call was answered by the server with this status
Answered(cl, i, status) ==
    i \in DOMAIN cl.hist /\ cl.hist[i].kind \in {"ok", "http", "parse", "cut"}
    /\ cl.hist[i].status = status

\* C3 as stated: when the first response is a 4xx other than 429, the call
\* has thrown after exactly one fetch and no backoff wait.
C3_ClientErrorOneAttempt ==
    \A c \in Calls : \A status \in {400, 401, 403, 404} :
      Answered(calls[c], 1, status)
        => (calls[c].pc = "thrown" /\ Len(calls[c].sent) = 1 /\ calls[c].sleeps = <<>>)

RateLimitMessages ==
    {"Rate limited. Try again in 60 seconds.", "Rate limited. Try again in 5 seconds."}

\* C4 as stated: a call whose every attempt was answered with 429 throws,
\* after exactly 3 fetches, an ApiError 429 whose message says Rate limited.
C4_RateLimitedThreeAttempts ==
    \A c \in Calls :
      (Settled(calls[c]) /\ calls[c].hist # <<>>
       /\ \A i \in DOMAIN calls[c].hist : Answered(calls[c], i, 429))
        => /\ Len(calls[c].sent) = 3
           /\ FailedWith(calls[c], 429)
           /\ calls[c].error.message \in RateLimitMessages

HasDataKey(x) == x.t = "obj" /\ x.v["data"] # Undefined

\* what the server sends for a payload x: the envelope { data: x } as JSON
Enveloped ==
    {[payload |-> x, status |-> status, resp |-> JsonResponse(status, Obj("data" :> x))] :
       x \in JsonPool, status \in {200, 201}}

\* what the server sends for a body x that has no data key
Bare == {[body |-> x, resp |-> JsonResponse(200, x)] : x \in {y \in JsonPool : ~HasDataKey(y)}}

\* C5: a 2xx JSON response whose body is { data: X } makes the call return
\* exactly X, for every JSON value X (null, false, 0, "", arrays, objects
\* with a data key of their own).
C5_UnwrapRoundTrip ==
    \A c \in Calls : \A e \in Enveloped :
      (Settled(calls[c]) /\ Answered(calls[c], Len(calls[c].hist), e.status)
       /\ calls[c].resp = e.resp)
        => (calls[c].pc = "returned" /\ calls[c].result = e.payload)

\* { data: false } came back and the call returned false
C5_Witness ==
    \E c \in Calls :
      /\ calls[c].pc = "returned"
      /\ calls[c].resp = JsonResponse(200, Obj("data" :> Bool(FALSE)))
      /\ calls[c].result = Bool(FALSE)

\* C6: a 2xx response whose body has no data key (a JSON object without
\* data, a JSON scalar, array or null, or a body not declared JSON) makes
\* the call return the parsed body unchanged.
C6_NoDataKeyUnchanged ==
    \A c \in Calls :
      (Settled(calls[c]) /\ Answered(calls[c], Len(calls[c].hist), calls[c].resp.status)
       /\ ResponseOk(calls[c].resp.status))
        => /\ \A b \in Bare :
                calls[c].resp = b.resp
                  => (calls[c].pc = "returned" /\ calls[c].result = b.body)
           /\ calls[c].resp = TextResponse(200, "OK")
                => (calls[c].pc = "returned" /\ calls[c].result = Str("OK"))
           /\ calls[c].resp.ctype = Str("text/plain")
                => (calls[c].pc = "returned" /\ calls[c].result = Str("{\"data\":7}"))
           /\ calls[c].resp.ctype = Null
                => (calls[c].pc = "returned" /\ calls[c].result = Str(""))

\* { message: "x" } came back and the call returned it whole
C6_Witness ==
    \E c \in Calls :
      /\ calls[c].pc = "returned"
      /\ calls[c].resp = JsonResponse(200, Obj("message" :> Str("x")))
      /\ calls[c].result = Obj("message" :> Str("x"))

RECURSIVE SplitAt(_, _, _)
\* the pieces of the atom sequence s between the separators sep
SplitAt(s, sep, piece) ==
    IF s = <<>> THEN <<piece>>
    ELSE IF Head(s) = sep THEN <<piece>> \o SplitAt(Tail(s), sep, <<>>)
    ELSE SplitAt(Tail(s), sep, Append(piece, Head(s)))

\* the character an escape of the query string stands for
FormDecodeAtom(a) ==
    CASE a = "+" -> " "
      [] a = "%26" -> "&"
      [] a = "%3D" -> "="
      [] a = "%2C" -> ","
      [] OTHER -> a

FormDecode(as) == Flat([i \in DOMAIN as |-> FormDecodeAtom(as[i])])

\* the query of a sent URL, read back as the server reads it: the
\* [name, value] pairs after the first "?", in order
QueryPairs(url) ==
    LET parts == SplitAt(url, "?", <<>>) IN
    IF Len(parts) < 2 THEN <<>>
    ELSE LET fields == SplitAt(parts[2], "&", <<>>) IN
         [i \in DOMAIN fields |->
            LET kv == SplitAt(fields[i], "=", <<>>) IN
            [name |-> FormDecode(kv[1]),
             value |-> IF Len(kv) < 2 THEN "" ELSE FormDecode(kv[2])]]

Omitted(val) == val \in {Null, Undefined, Str("")}

\* the string form of a parameter value
StringForm(val) ==
    CASE val.t = "str" -> val.v
      [] val = Num(0) -> "0"
      [] val = Num(10) -> "10"
      [] val = Bool(FALSE) -> "false"

IsGet(cl) == cl.fn = "get" /\ cl.sent # <<>>

\* C7: a key of the params mapping given to get is in the query string of
\* the request iff its value is not null, undefined or ""; every other
\* value, 0 and false included, is sent as its string form.
C7_ParamKeptIffPresent ==
    \A c \in Calls :
      IsGet(calls[c]) =>
        LET pairs == QueryPairs(calls[c].sent[1].url)
            ps == calls[c].params
        IN \A i \in DOMAIN ps :
             /\ (\E j \in DOMAIN pairs : pairs[j].name = ps[i].key) <=> ~Omitted(ps[i].value)
             /\ \A j \in DOMAIN pairs :
                  pairs[j].name = ps[i].key => pairs[j].value = StringForm(ps[i].value)

\* { foo: 0, status: null } was sent as foo=0
C7_Witness ==
    \E c \in Calls :
      /\ IsGet(calls[c])
      /\ calls[c].params = <<Entry("foo", Num(0)), Entry("status", Null)>>
      /\ QueryPairs(calls[c].sent[1].url) = <<[name |-> "foo", value |-> "0"]>>

RECURSIVE KeptEntries(_)
\* the entries of a params mapping that are not omitted, in order
KeptEntries(ps) ==
    IF ps = <<>> THEN <<>>
    ELSE (IF Omitted(Head(ps).value) THEN <<>> ELSE <<Head(ps)>>) \o KeptEntries(Tail(ps))

C9_OnlyApiErrorLeaves ==
    \A c \in Calls :
      calls[c].pc = "thrown"
        => (calls[c].error.name = "ApiError" /\ calls[c].error.statusCode.t = "num")

\* three attempts ended in a body that did not parse; an ApiError was thrown
C9_Witness ==
    \E c \in Calls :
      /\ calls[c].pc = "thrown" /\ Len(calls[c].hist) = 3
      /\ calls[c].lastError.name = "SyntaxError"
      /\ calls[c].error.name = "ApiError" /\ calls[c].error.statusCode = Num(500)

\* C10: no call issues more than 3 fetches.
C10_AtMostThreeAttempts ==
    \A c \in Calls : Len(calls[c].sent) <= 3 /\ calls[c].attempt <= 3

\* a call has issued its third fetch
C10_Witness ==
    \E c \in Calls : Len(calls[c].sent) = 3 /\ calls[c].pc = "fetch"

TimedOut(cl) ==
    /\ cl.pc = "thrown" /\ cl.error.name = "ApiError"
    /\ cl.error.statusCode = Num(408) /\ cl.error.message = "Request timed out"

\* C11: an attempt aborted by the timeout timer is the last thing the call
\* does: it has thrown ApiError(408, "Request timed out"), no fetch and no
\* backoff wait follows the abort.
C11_TimeoutFails408 ==
    \A c \in Calls : \A i \in DOMAIN calls[c].hist :
      calls[c].hist[i].kind = "abort"
        => /\ i = Len(calls[c].hist)
           /\ TimedOut(calls[c])
           /\ Len(calls[c].sent) = i /\ Len(calls[c].sleeps) = i - 1

\* the timer fired while the first fetch was pending; the call threw 408
C11_Witness ==
    \E c \in Calls :
      /\ calls[c].timer = "fired" /\ calls[c].hist = <<Seen("abort", 0)>>
      /\ TimedOut(calls[c]) /\ Len(calls[c].sent) = 1 /\ calls[c].sleeps = <<>>

\* C12 as stated: the fetch of every attempt is guarded by the timeout, so
\* a call that has a fetch pending always settles, returning or throwing,
\* even if the network never answers.
C12_EveryCallTerminates ==
    \A c \in Calls : (calls[c].pc = "fetch") ~> Settled(calls[c])

\* attempt i ended in a 5xx response or in a transport failure
ServerOrTransportFailure(cl, i) ==
    \/ cl.hist[i].kind = "net"
    \/ cl.hist[i].kind \in {"http", "parse", "cut"}
       /\ cl.hist[i].status >= 500 /\ cl.hist[i].status <= 599

C14_LastErrorSurfaces ==
    \A c \in Calls :
      LET cl == calls[c] IN
      (cl.pc = "thrown" /\ Len(cl.hist) = 3)
        => LET last == cl.caught[3] IN
           /\ Len(cl.caught) = 3
           /\ cl.hist[3].kind = "http" => last.statusCode = Num(cl.hist[3].status)
           /\ IF last.name = "ApiError"
              THEN cl.error = last
              ELSE /\ cl.error.name = "ApiError" /\ cl.error.statusCode = Num(500)
                   /\ cl.error.message =
                        (IF last.message # "" THEN last.message
                         ELSE "Request failed after retries")

\* a 500, a 429, then a transport failure without a message
C14_Witness ==
    \E c \in Calls :
      /\ calls[c].hist = <<Seen("http", 500), Seen("http", 429), Seen("net", 0)>>
      /\ calls[c].caught[3] = JsError("TypeError", "")
      /\ FailedWith(calls[c], 500)
      /\ calls[c].error.message = "Request failed after retries"

\* the call was made with what the store holds: 400 without a tenant for a
\* scoped facade, else 401 without a key, else a fetch to the stored apiUrl
\* (and tenant) carrying the stored apiKey
UsesStore(cl) ==
    IF cl.fn \in ScopedNames /\ ~Truthy(store.tenant)
    THEN FailedWith(cl, 400) /\ NoNetwork(cl)
    ELSE IF ~Truthy(store.apiKey)
    THEN FailedWith(cl, 401) /\ NoNetwork(cl)
    ELSE /\ cl.pc = "fetch" /\ Len(cl.sent) = 1
         /\ cl.sent[1].headers["X-API-Key"] = store.apiKey.v
         /\ cl.sent[1].url[1] = JsString(store.apiUrl)
         /\ cl.fn \in ScopedNames
              => (cl.sent[1].url[2] = "/tenants/" /\ cl.sent[1].url[3] = store.tenant.v)

OwnCounters(cl) ==
    /\ cl.attempt = Len(cl.sent) /\ cl.attempt <= MAX_RETRIES
    /\ Len(cl.hist) = (IF cl.pc = "fetch" THEN cl.attempt - 1 ELSE cl.attempt)
    /\ Len(cl.sleeps) = (IF cl.pc = "sleep" THEN cl.attempt
                         ELSE IF cl.attempt = 0 THEN 0 ELSE cl.attempt - 1)
    /\ (\E i \in DOMAIN cl.hist : cl.hist[i].kind = "abort") <=> cl.timer = "fired"
    /\ TimedOut(cl) => cl.timer = "fired"

\* C16: two calls in flight share nothing: a step of one call (a response,
\* a failure, its timer, its backoff) leaves the other call as it was, and
\* each call's attempt counter, waits and timeout follow from its own
\* attempts alone.
C16_CallsAreIndependent ==
    /\ [](\A c \in Calls : OwnCounters(calls[c]))
    /\ [][\A c, d \in Calls :
            (c # d /\ calls'[c] # calls[c]) => calls'[d] = calls[d]]_vars

\* both fetches pending: one call is at its third attempt, the other at
\* its first with its timer still armed
C16_Witness ==
    /\ calls["c1"].pc = "fetch" /\ calls["c1"].attempt = 3 /\ calls["c1"].timer = "cleared"
    /\ calls["c2"].pc = "fetch" /\ calls["c2"].attempt = 1 /\ calls["c2"].timer = "armed"

DefaultHeaderNames == {"Content-Type", "X-API-Key", "User-Agent"}

\* the value a default header has when nothing replaces it
DefaultHeader(cl, name) ==
    CASE name = "Content-Type" -> "application/json"
      [] name = "X-API-Key" -> cl.cfg.apiKey.v
      [] name = "User-Agent" -> "@erold/cli/1.0.0"

JsonTextOf(data) ==
    CASE data = Undefined -> "{}"
      [] data = Null -> "null"
      [] data = Obj("name" :> Str("Test")) -> "{\"name\":\"Test\"}"
      [] data = Obj(("taskIds" :> Arr(<<Str("1"), Str("2")>>))
                    @@ ("updates" :> Obj(("percent" :> Num(50)) @@ ("notes" :> Null))))
           -> "{\"taskIds\":[\"1\",\"2\"],\"updates\":{\"percent\":50,\"notes\":null}}"
      [] data = Obj("reason" :> Str("flaky")) -> "{\"reason\":\"flaky\"}"

\* the request carries the JSON text of data, which parses back to data
\* ({} when no data was given)
CarriesJsonOf(req, data) ==
    /\ req.body.present
    /\ TokensText(req.body.toks) = JsonTextOf(data)
    /\ JsonParse(req.body.toks).ok
    /\ JsonParse(req.body.toks).val = (IF data = Undefined THEN Obj(<<>>) ELSE data)

\* C18: every request of post is a POST and of patch a PATCH whose body is
\* the JSON serialization of the value given; every request of get is a
\* GET and of del a DELETE with no body at all.
C18_BodyPerVerb ==
    \A c \in Calls : \A i \in DOMAIN calls[c].sent :
      LET req == calls[c].sent[i] IN
      /\ calls[c].fn = "post" => (req.method = "POST" /\ CarriesJsonOf(req, calls[c].data))
      /\ calls[c].fn = "patch" => (req.method = "PATCH" /\ CarriesJsonOf(req, calls[c].data))
      /\ calls[c].fn = "get" => (req.method = "GET" /\ ~req.body.present /\ req.body.toks = <<>>)
      /\ calls[c].fn = "del" => (req.method = "DELETE" /\ ~req.body.present /\ req.body.toks = <<>>)

\* patch has sent a nested object as its JSON text
C18_Witness ==
    \E c \in Calls :
      /\ calls[c].fn = "patch" /\ calls[c].pc = "fetch"
      /\ calls[c].sent[1].method = "PATCH"
      /\ TokensText(calls[c].sent[1].body.toks)
           = "{\"taskIds\":[\"1\",\"2\"],\"updates\":{\"percent\":50,\"notes\":null}}"

\* the paths of the global facades, the arguments written in
GlobalPath(fn) ==
    CASE fn = "user.me" -> "/me"
      [] fn = "user.notifications" -> "/me/notifications"
      [] fn = "user.markNotificationRead" -> "/me/notifications/42"
      [] fn = "user.markAllNotificationsRead" -> "/me/notifications/read-all"
      [] fn = "invites.accept" -> "/invites/42/accept"
      [] fn = "invites.decline" -> "/invites/42/decline"
      [] fn = "tenants.list" -> "/tenants"
      [] fn = "tenants.get" -> "/tenants/acme"

GlobalNames == {"user.me", "user.notifications", "user.markNotificationRead",
                "user.markAllNotificationsRead", "invites.accept", "invites.decline",
                "tenants.list", "tenants.get"}

\* the text with which the path of a tenant-scoped request goes on after
\* /tenants/T: it begins with a slash
AfterTenant ==
    {"/activity", "/context", "/dashboard", "/export/activity", "/export/projects",
     "/export/tasks", "/invites", "/knowledge", "/knowledge/", "/knowledge/category/",
     "/members", "/members/", "/members/invite", "/projects", "/projects/", "/stats",
     "/tasks", "/tasks/", "/tasks/blocked", "/tasks/bulk", "/tasks/mine", "/tasks/search",
     "/workload"}

\* the path of the url, without the base and the query
PathOf(url) ==
    Flat(Tail(SplitAt(url, "?", <<>>)[1]))

\* C19: with a key and no tenant configured a global facade issues its
\* request, to its own path with no tenant prefix, and does not fail with
\* the missing-tenant 400; with a key and a tenant T configured every other
\* facade issues its request to a path that starts with /tenants/T/.
C19_GlobalAndScopedPaths ==
    \A c \in Calls :
      LET cl == calls[c] IN
      /\ (cl.fn \in GlobalNames /\ HadKey(cl) /\ ~HadTenant(cl))
           => /\ cl.sent # <<>> /\ ~cl.sync /\ cl.error # NoTenantConfigured
              /\ \A i \in DOMAIN cl.sent :
                   /\ cl.sent[i].url[1] = JsString(cl.cfg.apiUrl)
                   /\ PathOf(cl.sent[i].url) = GlobalPath(cl.fn)
      /\ (cl.fn \in ScopedNames /\ HadKey(cl) /\ HadTenant(cl))
           => /\ cl.sent # <<>>
              /\ \A i \in DOMAIN cl.sent :
                   /\ cl.sent[i].url[1] = JsString(cl.cfg.apiUrl)
                   /\ cl.sent[i].url[2] = "/tenants/"
                   /\ cl.sent[i].url[3] = cl.cfg.tenant.v
                   /\ cl.sent[i].url[4] \in AfterTenant

\* tenants.get with a key and no tenant: the request goes to /tenants/acme
C19_Witness ==
    \E c \in Calls :
      /\ calls[c].fn = "tenants.get" /\ HadKey(calls[c]) /\ ~HadTenant(calls[c])
      /\ calls[c].pc = "fetch"
      /\ Flat(calls[c].sent[1].url) = "https://api.erold.dev/api/v1/tenants/acme"

\* attempt i received a 2xx response
Received2xx(cl, i) ==
    cl.hist[i].status >= 200 /\ cl.hist[i].status <= 299

\* the body of the response of attempt i could not be read
Unreadable(cl, i) == cl.hist[i].kind \in {"parse", "cut"}

\* the call returned at attempt i, with the payload of the response it
\* received there, and went no further
ReturnedAt(cl, i) ==
    /\ cl.pc = "returned" /\ i = Len(cl.hist) /\ Len(cl.sent) = i
    /\ cl.resp.status = cl.hist[i].status
    /\ cl.resp.status = 200 => cl.result = Obj("name" :> Str("x"))
    /\ cl.resp.status = 204 => cl.result = Str("")

\* C20 as stated: once an attempt has received a 2xx response the call
\* has returned the payload of that response and issues no further fetch.
C20_SuccessEndsCall ==
    \A c \in Calls : \A i \in DOMAIN calls[c].hist :
      Received2xx(calls[c], i) => ReturnedAt(calls[c], i)

\* C20 amended: once an attempt has received a 2xx response whose body
\* could be read, the call has returned the payload of that response and
\* issues no further fetch, whatever failures came before; a 2xx response
\* whose body could not be read is a failed attempt like any other.
C20_ReadableSuccessEndsCall ==
    \A c \in Calls : \A i \in DOMAIN calls[c].hist :
      /\ (Received2xx(calls[c], i) /\ ~Unreadable(calls[c], i))
           => ReturnedAt(calls[c], i)
      /\ (Received2xx(calls[c], i) /\ Unreadable(calls[c], i))
           => /\ calls[c].pc # "returned" \/ i < Len(calls[c].hist)
              /\ calls[c].caught[i].name \in {"SyntaxError", "TypeError"}

\* 429, 500, then 200 with { data: X }: X is returned after 3 fetches
C20_Witness ==
    \E c \in Calls :
      /\ calls[c].hist = <<Seen("http", 429), Seen("http", 500), Seen("ok", 200)>>
      /\ calls[c].pc = "returned" /\ Len(calls[c].sent) = 3
      /\ calls[c].result = Obj("name" :> Str("x"))

\* C21: the waits of a call are 1000 ms after attempt 1 and 2000 ms after
\* attempt 2 and nothing else: every fetch but the first comes after the
\* wait that follows the attempt before it, and no wait comes before the
\* first fetch, after the third attempt, or after the attempt whose failure
\* the call throws (a 4xx other than 429, a timeout).
C21_BackoffBetweenAttempts ==
    \A c \in Calls :
      LET cl == calls[c] IN
      /\ cl.sleeps \in {<<>>, <<1000>>, <<1000, 2000>>}
      /\ cl.sent = <<>> => cl.sleeps = <<>>
      /\ cl.pc = "sleep" => (Len(cl.sleeps) = Len(cl.sent) /\ Len(cl.hist) = Len(cl.sent))
      /\ (cl.pc # "sleep" /\ cl.sent # <<>>) => Len(cl.sleeps) = Len(cl.sent) - 1
      /\ (cl.pc = "thrown" /\ cl.sent # <<>>)
           => /\ Len(cl.hist) = Len(cl.sent)
              /\ (IsClientError(cl.error) \/ TimedOut(cl) \/ Len(cl.sent) = 3)

\* the third fetch is pending after the waits of 1000 and 2000 ms
C21_Witness ==
    \E c \in Calls :
      /\ calls[c].pc = "fetch" /\ Len(calls[c].sent) = 3
      /\ calls[c].sleeps = <<1000, 2000>>

GenericMessage(status) ==
    CASE status = 400 -> "HTTP 400"
      [] status = 404 -> "HTTP 404"
      [] status = 500 -> "HTTP 500"

\* the error case the response was made from
CaseOf(resp) ==
    CHOOSE ec \in ErrorCases : ec.body = resp.body /\ ec.json = (resp.ctype = JsonType)

\* C22: the ApiError built from a non-2xx response other than 429 has the
\* HTTP status for statusCode; for message body.error.message if there is
\* one, else body.message if there is one, else "HTTP <status>"; for
\* details body.error.details, null when the body has none or is text.
C22_HttpErrorFromBody ==
    \A c \in Calls :
      LET cl == calls[c]
          n == Len(cl.hist)
      IN (n > 0 /\ cl.hist[n].kind \in {"ok", "http"})
           => LET ec == CaseOf(cl.resp)
                  e == cl.caught[n]
              IN /\ cl.hist[n].kind = "http" /\ Len(cl.caught) = n
                 /\ e.name = "ApiError"
                 /\ e.statusCode = Num(cl.resp.status)
                 /\ e.message = (IF ec.message = "" THEN GenericMessage(cl.resp.status)
                                 ELSE ec.message)
                 /\ e.details = ec.details
                 /\ cl.pc = "thrown" => (Len(cl.sent) = 3 \/ cl.resp.status \in {400, 404})
                 /\ cl.pc = "thrown" => cl.error = e

\* a 400 whose body has error.details but only a top-level message
C22_Witness ==
    \E c \in Calls :
      /\ FailedWith(calls[c], 400) /\ Len(calls[c].sent) = 1
      /\ calls[c].error.message = "Outer"
      /\ calls[c].error.details = SomeDetails

\* the last attempt of the call ended with a response that declares JSON
\* and whose body is no JSON text
LastBodyUnparsable(cl) ==
    /\ cl.hist # <<>>
    /\ cl.hist[Len(cl.hist)].kind \in {"ok", "http", "parse"}
    /\ \E st \in {200, 404, 429, 503} : cl.resp = BadJsonResponse(st)

C25_TimerClearedAtSettle ==
    \A c \in Calls :
      (Settled(calls[c]) /\ calls[c].sent # <<>>)
        => calls[c].timer \in {"cleared", "fired"}

\* a call that returned at its second attempt, its timer cleared
C25_Witness ==
    \E c \in Calls :
      /\ calls[c].pc = "returned" /\ Len(calls[c].sent) = 2
      /\ calls[c].timer = "cleared"

\* C26: a tenant-scoped facade called with neither a tenant nor an API key
\* configured fails with the 400 missing-tenant ApiError, not with 401; the
\* error is thrown synchronously while the path is built, before any verb
\* is entered, so nothing is sent.
C26_TenantCheckedBeforeKey ==
    \A c \in Calls :
      LET cl == calls[c] IN
      (Started(cl) /\ cl.scoped /\ ~HadKey(cl) /\ ~HadTenant(cl))
        => /\ cl.pc = "thrown" /\ cl.error = NoTenantConfigured
           /\ cl.error.statusCode = Num(400) /\ cl.error # NotAuthenticated
           /\ cl.sync
           /\ cl.req = NoRequest /\ NoNetwork(cl)

\* tasks.list called with an empty store: thrown synchronously with 400
C26_Witness ==
    \E c \in Calls :
      /\ calls[c].fn = "tasks.list" /\ ~HadKey(calls[c]) /\ ~HadTenant(calls[c])
      /\ calls[c].sync /\ FailedWith(calls[c], 400)

\* C27: every attempt of a call goes to the URL, with the method, body and
\* headers, of its first attempt, which were built from the configuration
\* read when the call began; a configuration change made while the call
\* waits between attempts does not alter the later attempts.
C27_AttemptsRepeatFirstRequest ==
    \A c \in Calls :
      LET cl == calls[c] IN
      \A i \in DOMAIN cl.sent :
        /\ cl.sent[i].url = cl.sent[1].url
        /\ cl.sent[i].method = cl.sent[1].method
        /\ cl.sent[i].body = cl.sent[1].body
        /\ cl.sent[i].headers = cl.sent[1].headers
        /\ cl.sent[i].url[1] = JsString(cl.cfg.apiUrl)
        /\ cl.sent[i].headers["X-API-Key"] = JsString(cl.cfg.apiKey)

\* the key and the URL were replaced after the first attempt: the second
\* attempt still carries the old key to the old URL
C27_Witness ==
    \E c \in Calls :
      /\ Len(calls[c].sent) = 2 /\ calls[c].pc = "fetch"
      /\ calls[c].cfg.apiKey = Str("erold_k1") /\ store.apiKey = Str("erold_k2")
      /\ calls[c].cfg.apiUrl = Str("https://api.test.com")
      /\ store.apiUrl = Str("https://eu.test.com")
      /\ calls[c].sent[2].headers["X-API-Key"] = "erold_k1"
      /\ calls[c].sent[2].url[1] = "https://api.test.com"

\* the environment variable the claim names for a key
UpperEnvName(key) ==
    "EROLD_" \o (CASE key = "apiKey" -> "APIKEY"
                   [] key = "apiUrl" -> "APIURL"
                   [] key = "tenant" -> "TENANT")

\* the variable of the key is set to a non-empty string
EnvSet(key) == env[UpperEnvName(key)].t = "str" /\ env[UpperEnvName(key)].v # ""

\* C23: config.get(key), and so getApiConfig, returns the value of
\* EROLD_<KEY in upper case> when that variable is set to a non-empty
\* string and the stored value otherwise; hence no set, remove,
\* saveCredentials or clearCredentials changes what is returned for a key
\* whose variable is set.
C23_EnvOverridesStore ==
    /\ [](\A key \in ConfigKeys :
            LET expected == IF EnvSet(key) THEN env[UpperEnvName(key)] ELSE store[key]
            IN ConfigGet(key) = expected /\ GetApiConfig[key] = expected)
    /\ [][\A key \in ConfigKeys :
            EnvSet(key) => (ConfigGet(key)' = ConfigGet(key)
                            /\ GetApiConfig'[key] = GetApiConfig[key])]_vars

\* a key was stored, a login replaced it and its failure cleared it: get
\* still returns the key of the environment
C23_Witness ==
    /\ env["EROLD_APIKEY"] = Str("erold_env")
    /\ cmd.name = "login" /\ cmd.pc = "exit1" /\ cmd.failed = "user.me"
    /\ cmd.before.apiKey = Str("erold_k1") /\ cmd.key = Str("yet_k1")
    /\ store.apiKey = Undefined
    /\ GetApiConfig.apiKey = Str("erold_env")

\* C28: once loginCommand has completed successfully (key accepted,
\* verified and saved), config.isConfigured() returns true, so whoami and
\* switch no longer report that the user is not logged in.
C28_LoginThenConfigured ==
    (cmd.name = "login" /\ cmd.pc = "done") => IsConfigured

\* C29: when user.me or tenants.list throws during loginCommand, the
\* command ends with neither an apiKey nor a tenant in the store, whatever
\* the store held before the login began.
C29_FailedLoginClearsCredentials ==
    (cmd.name = "login" /\ cmd.pc = "exit1" /\ cmd.failed \in {"user.me", "tenants.list"})
      => /\ store.apiKey = Undefined /\ store.tenant = Undefined
         /\ store.apiUrl = cmd.before.apiUrl

\* a key and a tenant were stored, then a login failed at tenants.list:
\* both are gone
C29_Witness ==
    /\ cmd.name = "login" /\ cmd.pc = "exit1" /\ cmd.failed = "tenants.list"
    /\ cmd.before.apiKey = Str("erold_k1") /\ cmd.before.tenant = Str("acme")
    /\ store.apiKey = Undefined /\ store.tenant = Undefined

\* C30: switchCommand changes the store only by storing the requested
\* tenant, and only when tenants.get for that tenant has returned; when
\* tenants.get throws, the command ends with the store as it found it.
C30_SwitchStoresAfterVerification ==
    /\ [][(cmd'.name = "switch" /\ store' # store)
            => /\ cmd.name = "switch" /\ cmd.pc = "switch.get"
               /\ calls[CmdCall].fn = "tenants.get" /\ calls[CmdCall].pc = "returned"
               /\ calls[CmdCall].sent[1].url[3] = cmd.tenant.v
               /\ store' = [store EXCEPT !.tenant = cmd.tenant]]_vars
    /\ [](cmd.name = "switch" /\ cmd.pc = "exit1" /\ cmd.failed = "tenants.get"
            => store = cmd.before)

\* switch globex refused by the server with 401: the stored tenant is
\* still acme and the stored key is untouched
C30_Witness ==
    /\ cmd.name = "switch" /\ cmd.pc = "exit1" /\ cmd.failed = "tenants.get"
    /\ cmd.tenant = Str("globex") /\ cmd.said = "Invalid API key"
    /\ store.tenant = Str("acme") /\ store.apiKey = Str("erold_k1")
    /\ store = cmd.before

====
